---- MODULE Spec2Model ----
(***************************************************************************)
(* AnswerFinder: the matching engine (findAnswer and its tier cascade),    *)
(* the query cache (LRUCache), the question store (IndexedDBManager) and   *)
(* the background handlers that change the store (handleUploadFile,        *)
(* StateManager.clearAll).                                                 *)
(*                                                                         *)
(* Texts are sequences of characters; a character is a one-letter string,  *)
(* or a named token for a character outside ASCII ("rsquo", "nbsp", ...)   *)
(* and for the double quote, the backquote and the backslash ("dquote",    *)
(* "bquote", "bslash").                                                    *)
(* Numbers that are floats in the program are fixed-point integers in      *)
(* units of 1/SCALE.                                                       *)
(***************************************************************************)
EXTENDS Integers, Sequences, FiniteSets, TLC

(***************************************************************************)
(* Text helpers                                                            *)
(***************************************************************************)

\* a sequence given as a function, with every element evaluated
Strict(seq) == seq \o <<>>

\* a TLA+ string as a sequence of characters
Chars(s) == Strict([i \in 1..Len(s) |-> SubSeq(s, i, i)])

\* the value of a query argument that is not a string (undefined, null, ...)
NotAString == <<"#undefined">>

IsString(q) == q # NotAString

Lower == {"a","b","c","d","e","f","g","h","i","j","k","l","m",
          "n","o","p","q","r","s","t","u","v","w","x","y","z"}

Upper == {"A","B","C","D","E","F","G","H","I","J","K","L","M",
          "N","O","P","Q","R","S","T","U","V","W","X","Y","Z"}

Digit == {"0","1","2","3","4","5","6","7","8","9"}

\* String.prototype.toLowerCase on one character
ToLowerChar(c) ==
    CASE c = "A" -> "a" [] c = "B" -> "b" [] c = "C" -> "c" [] c = "D" -> "d"
      [] c = "E" -> "e" [] c = "F" -> "f" [] c = "G" -> "g" [] c = "H" -> "h"
      [] c = "I" -> "i" [] c = "J" -> "j" [] c = "K" -> "k" [] c = "L" -> "l"
      [] c = "M" -> "m" [] c = "N" -> "n" [] c = "O" -> "o" [] c = "P" -> "p"
      [] c = "Q" -> "q" [] c = "R" -> "r" [] c = "S" -> "s" [] c = "T" -> "t"
      [] c = "U" -> "u" [] c = "V" -> "v" [] c = "W" -> "w" [] c = "X" -> "x"
      [] c = "Y" -> "y" [] c = "Z" -> "z" [] OTHER -> c

toLowerCase(text) == Strict([i \in 1..Len(text) |-> ToLowerChar(text[i])])

\* the regular expression class \w
IsWordChar(c) == c \in Lower \cup Upper \cup Digit \cup {"_"}

\* the regular expression class \s (the named tokens are the Unicode spaces)
IsSpace(c) == c \in {" ", "\t", "\n", "nbsp", "emsp"}

\* the least j in lo..hi with P(j), or 0 when there is none
FirstWhere(lo, hi, P(_)) ==
    IF \E j \in lo..hi : P(j)
    THEN CHOOSE j \in lo..hi : P(j) /\ \A k \in lo..(j - 1) : ~P(k)
    ELSE 0

\* the greatest j in lo..hi with P(j), or 0 when there is none
LastWhere(lo, hi, P(_)) ==
    IF \E j \in lo..hi : P(j)
    THEN CHOOSE j \in lo..hi : P(j) /\ \A k \in (j + 1)..hi : ~P(k)
    ELSE 0

\* the elements of a sequence
Range(seq) == {seq[k] : k \in 1..Len(seq)}

\* the concatenation of pieces[lo], ..., pieces[hi]
RECURSIVE Concat(_, _, _)
Concat(pieces, lo, hi) ==
    IF lo > hi THEN <<>>
    ELSE IF lo = hi THEN pieces[lo]
         ELSE LET mid == (lo + hi) \div 2
              IN  Concat(pieces, lo, mid) \o Concat(pieces, mid + 1, hi)

\* text.replace(/[set]/g, repl): every character of `set` becomes `repl`
ReplaceEach(text, set, repl) ==
    Concat([i \in 1..Len(text) |-> IF text[i] \in set THEN repl ELSE <<text[i]>>],
           1, Len(text))

\* membership in a regular expression character class
InClass(c, cls) ==
    CASE cls = "space"    -> IsSpace(c)
      [] cls = "nonspace" -> ~IsSpace(c)
      [] cls = "punct"    -> ~IsWordChar(c) /\ ~IsSpace(c)
      [] cls = "hyphen"   -> c = "-"

\* the length of the run of characters of class cls that starts at i
RunLen(text, i, cls) ==
    LET Stop(j) == ~InClass(text[j], cls)
        Upto(stop) == IF stop = 0 THEN Len(text) - i + 1 ELSE stop - i
    IN  IF i > Len(text) THEN 0
        ELSE Upto(FirstWhere(i, Len(text), Stop))

\* the length of the run of characters of class cls that ends at i
RunLenBack(text, i, cls) ==
    LET Stop(j) == ~InClass(text[j], cls)
    IN  IF i < 1 THEN 0 ELSE i - LastWhere(1, i, Stop)

\* String.prototype.trim
trim(text) ==
    LET Without(lead, trail) ==
          IF lead = Len(text) THEN <<>>
          ELSE SubSeq(text, lead + 1, Len(text) - trail)
    IN  Without(RunLen(text, 1, "space"), RunLenBack(text, Len(text), "space"))

\* text.split(/\s+/): the pieces between the runs of whitespace; a text that
\* starts (ends) with whitespace yields an empty first (last) piece
splitWhitespace(text) ==
    LET n == Len(text)
        IsStart(i) == ~IsSpace(text[i]) /\ (i = 1 \/ IsSpace(text[i - 1]))
        Words(starts) ==
            Strict([k \in 1..Len(starts) |->
                SubSeq(text, starts[k],
                       starts[k] + RunLen(text, starts[k], "nonspace") - 1)])
    IN  IF n = 0 THEN << <<>> >>
        ELSE (IF IsSpace(text[1]) THEN << <<>> >> ELSE <<>>)
                \o Words(SelectSeq([i \in 1..n |-> i], IsStart))
                \o (IF IsSpace(text[n]) THEN << <<>> >> ELSE <<>>)

\* Array.prototype.join(' ')
joinSpace(words) ==
    Concat([k \in 1..Len(words) |->
              IF k = 1 THEN words[k] ELSE <<" ">> \o words[k]], 1, Len(words))

\* whether `pat` occurs in `text` at position i
MatchesAt(text, i, pat) ==
    /\ i >= 1
    /\ i + Len(pat) - 1 <= Len(text)
    /\ SubSeq(text, i, i + Len(pat) - 1) = pat

\* String.prototype.includes
includes(text, pat) ==
    \E i \in 1..(Len(text) - Len(pat) + 1) : MatchesAt(text, i, pat)

(***************************************************************************)
(* text-normalizer.js                                                      *)
(***************************************************************************)

\* Stage 1: one character after NFKC and the replacements of lines 18-31,
\* applied in the program's order: quotes, dashes, ellipsis, the Unicode
\* spaces (U+200B among them) to a space, then the zero-width characters
NormalizeChar(c) ==
    CASE c = "fi_lig"              -> <<"f", "i">>
      [] c \in {"lsquo", "rsquo"}  -> <<"'">>
      [] c \in {"ldquo", "rdquo"}  -> <<"dquote">>
      [] c \in {"ndash", "mdash"}  -> <<"-">>
      [] c = "hellip"              -> <<".", ".", ".">>
      [] c \in {"nbsp", "emsp", "zwsp"} -> <<" ">>
      [] c \in {"zwj", "bom"}      -> <<>>
      [] OTHER                     -> <<c>>

normalizeCharacters(text) ==
    Concat([i \in 1..Len(text) |-> NormalizeChar(text[i])], 1, Len(text))

\* text.replace(/^[^\w\s]+|[^\w\s]+$/g, '')
StripEdgePunctuation(text) ==
    LET StripEnd(rest) ==
          SubSeq(rest, 1, Len(rest) - RunLenBack(rest, Len(rest), "punct"))
    IN  StripEnd(SubSeq(text, RunLen(text, 1, "punct") + 1, Len(text)))

\* text.replace(/(\s)-+(\s)/g, ' '): the matches from i on, left to right
RECURSIVE ReplaceSpacedHyphens(_, _)
ReplaceSpacedHyphens(text, i) ==
    LET n == Len(text)
        Between(j, h) == /\ IsSpace(text[j])
                         /\ h > 0
                         /\ j + h + 1 <= n
                         /\ IsSpace(text[j + h + 1])
        Match(j) == Between(j, RunLen(text, j + 1, "hyphen"))
        From(m) ==
          IF m = 0 THEN SubSeq(text, i, n)
          ELSE SubSeq(text, i, m - 1) \o <<" ">>
                 \o ReplaceSpacedHyphens(text, m + RunLen(text, m + 1, "hyphen") + 2)
    IN  From(FirstWhere(i, n, Match))

\* text.replace(/(\s)-+/g, ' ')
RECURSIVE ReplaceLeadingHyphens(_, _)
ReplaceLeadingHyphens(text, i) ==
    LET n == Len(text)
        Match(j) == IsSpace(text[j]) /\ RunLen(text, j + 1, "hyphen") > 0
        From(m) ==
          IF m = 0 THEN SubSeq(text, i, n)
          ELSE SubSeq(text, i, m - 1) \o <<" ">>
                 \o ReplaceLeadingHyphens(text, m + RunLen(text, m + 1, "hyphen") + 1)
    IN  From(FirstWhere(i, n, Match))

\* text.replace(/-+(\s)/g, ' '): a run of hyphens is matched from its first
\* hyphen, and only when whitespace follows the run
RECURSIVE ReplaceTrailingHyphens(_, _)
ReplaceTrailingHyphens(text, i) ==
    LET n == Len(text)
        Before(j, h) == h > 0 /\ j + h <= n /\ IsSpace(text[j + h])
        Match(j) == Before(j, RunLen(text, j, "hyphen"))
        From(m) ==
          IF m = 0 THEN SubSeq(text, i, n)
          ELSE SubSeq(text, i, m - 1) \o <<" ">>
                 \o ReplaceTrailingHyphens(text, m + RunLen(text, m, "hyphen") + 1)
    IN  From(FirstWhere(i, n, Match))

\* Stage 2
normalizePunctuation(text, options) ==
    LET T2(t1) == ReplaceEach(t1, {".", ",", ";", ":"}, <<" ">>)
        T3(t2) == IF ~options.preserveQuestionMarks
                  THEN ReplaceEach(t2, {"?", "!"}, <<" ">>)
                  ELSE t2
        T4(t3) == ReplaceEach(t3, {"dquote", "'", "bquote"}, <<>>)
        T5(t4) == ReplaceEach(t4, {"(", ")", "{", "}", "[", "]"}, <<" ">>)
        T6(t5) == ReplaceEach(t5, {"<", ">", "|", "bslash", "/", "~", "^", "*", "+", "=", "_"},
                              <<" ">>)
        T7(t6) == ReplaceSpacedHyphens(t6, 1)
        T8(t7) == ReplaceLeadingHyphens(t7, 1)
    IN  ReplaceTrailingHyphens(
            T8(T7(T6(T5(T4(T3(T2(StripEdgePunctuation(text)))))))), 1)

\* the regular expression assertion \b between positions i-1 and i
WordBoundary(text, i) ==
    LET before == i > 1 /\ i - 1 <= Len(text) /\ IsWordChar(text[i - 1])
        after  == i >= 1 /\ i <= Len(text) /\ IsWordChar(text[i])
    IN  before # after

\* text.replace(new RegExp(/\bpat\b/gi), repl): the matches from i on
RECURSIVE ReplaceWord(_, _, _, _)
ReplaceWord(text, i, pat, repl) ==
    LET n == Len(text)
        Match(j) == /\ j + Len(pat) - 1 <= n
                    /\ ToLowerChar(text[j]) = ToLowerChar(pat[1])
                    /\ toLowerCase(SubSeq(text, j, j + Len(pat) - 1)) = toLowerCase(pat)
                    /\ WordBoundary(text, j)
                    /\ WordBoundary(text, j + Len(pat))
        From(m) ==
          IF m = 0 THEN SubSeq(text, i, n)
          ELSE SubSeq(text, i, m - 1) \o repl
                 \o ReplaceWord(text, m + Len(pat), pat, repl)
    IN  From(FirstWhere(i, n, Match))

\* the dictionary of transformText, in the order of its entries
contractions ==
    << <<"don't", "do not">>, <<"doesn't", "does not">>, <<"didn't", "did not">>,
       <<"won't", "will not">>, <<"wouldn't", "would not">>, <<"can't", "cannot">>,
       <<"couldn't", "could not">>, <<"shouldn't", "should not">>,
       <<"isn't", "is not">>, <<"aren't", "are not">>, <<"wasn't", "was not">>,
       <<"weren't", "were not">>, <<"haven't", "have not">>, <<"hasn't", "has not">>,
       <<"hadn't", "had not">>, <<"i'm", "i am">>, <<"you're", "you are">>,
       <<"he's", "he is">>, <<"she's", "she is">>, <<"it's", "it is">>,
       <<"we're", "we are">>, <<"they're", "they are">>, <<"i've", "i have">>,
       <<"you've", "you have">>, <<"we've", "we have">>, <<"they've", "they have">>,
       <<"i'll", "i will">>, <<"you'll", "you will">>, <<"he'll", "he will">>,
       <<"she'll", "she will">>, <<"we'll", "we will">>, <<"they'll", "they will">>,
       <<"i'd", "i would">>, <<"you'd", "you would">>, <<"he'd", "he would">>,
       <<"she'd", "she would">>, <<"we'd", "we would">>, <<"they'd", "they would">> >>

numberWords ==
    << <<"zero", "0">>, <<"one", "1">>, <<"two", "2">>, <<"three", "3">>,
       <<"four", "4">>, <<"five", "5">>, <<"six", "6">>, <<"seven", "7">>,
       <<"eight", "8">>, <<"nine", "9">>, <<"ten", "10">>, <<"eleven", "11">>,
       <<"twelve", "12">>, <<"thirteen", "13">>, <<"fourteen", "14">>,
       <<"fifteen", "15">>, <<"sixteen", "16">>, <<"seventeen", "17">>,
       <<"eighteen", "18">>, <<"nineteen", "19">>, <<"twenty", "20">>,
       <<"thirty", "30">>, <<"forty", "40">>, <<"fifty", "50">>, <<"sixty", "60">>,
       <<"seventy", "70">>, <<"eighty", "80">>, <<"ninety", "90">>,
       <<"hundred", "100">>, <<"thousand", "1000">> >>

\* Object.entries(dict).forEach(replace), from entry k on
RECURSIVE ReplaceAllWords(_, _, _)
ReplaceAllWords(text, dict, k) ==
    IF k > Len(dict) \/ text = <<>> THEN text
    ELSE ReplaceAllWords(
            ReplaceWord(text, 1, Chars(dict[k][1]), Chars(dict[k][2])), dict, k + 1)

\* Stage 3
transformText(text, options) ==
    LET T2(t1) == IF options.normalizeNumbers
                  THEN ReplaceAllWords(t1, numberWords, 1) ELSE t1
        T3(t2) == IF options.lowercase THEN toLowerCase(t2) ELSE t2
    IN  T3(T2(IF options.expandContractions
              THEN ReplaceAllWords(text, contractions, 1) ELSE text))

\* text.replace(/\s+/g, ' '): the first character of a run of whitespace
\* becomes a space and the others go
CollapseWhitespace(text) ==
    Concat([i \in 1..Len(text) |->
              IF ~IsSpace(text[i]) THEN <<text[i]>>
              ELSE IF i > 1 /\ IsSpace(text[i - 1]) THEN <<>> ELSE <<" ">>],
           1, Len(text))

\* Stage 4
normalizeStructure(text) == trim(CollapseWhitespace(text))

normalize(text, options) ==
    IF text = <<>> \/ ~IsString(text) THEN <<>>
    ELSE normalizeStructure(
            transformText(
               normalizePunctuation(normalizeCharacters(text), options), options))

normalizeForMatching(text) ==
    normalize(text, [lowercase |-> TRUE, expandContractions |-> TRUE,
                     normalizeNumbers |-> FALSE, preserveQuestionMarks |-> FALSE])

normalizeForKeywords(text) ==
    normalize(text, [lowercase |-> TRUE, expandContractions |-> FALSE,
                     normalizeNumbers |-> FALSE, preserveQuestionMarks |-> FALSE])

(***************************************************************************)
(* constants.js; a fraction f is the integer f * SCALE                     *)
(***************************************************************************)

SCALE == 100 * 100

\* CONFIDENCE_THRESHOLDS
CONF_EXACT == 10000
CONF_HIGH == 8500
CONF_MEDIUM == 6000
CONF_LOW == 3000

\* MATCHING_CONFIG
KEYWORD_MIN_OVERLAP == 7500
KEYWORD_MIN_CONFIDENCE == 7500
KEYWORD_MAX_CONFIDENCE == 9500
FUZZY_MIN_SIMILARITY == 8500
FUZZY_MIN_CONFIDENCE == 6000
FUZZY_MAX_CONFIDENCE == 8000
FUZZY_MAX_CANDIDATES == 50
PARTIAL_MIN_SCORE == 5000
PARTIAL_MIN_CONFIDENCE == 3000
PARTIAL_MAX_CONFIDENCE == 6000
MAX_QUERY_LENGTH == 500
MIN_QUERY_LENGTH == 3

\* CACHE_CONFIG
MAX_SIZE == 100
TTL_MS == 3600000

\* PARSER_CONFIG
BATCH_SIZE == 100

\* KEYWORD_CONFIG
MAX_KEYWORDS == 50
MIN_KEYWORD_LENGTH == 3
MAX_KEYWORD_LENGTH == 50
IMPORTANCE_THRESHOLD == 1000

\* DEFAULT_SETTINGS.minConfidence, and the default of findAnswer
DEFAULT_MIN_CONFIDENCE == 5000

\* a / b as a fraction
FDiv(a, b) == (a * SCALE) \div b

\* the product of two fractions
FMul(x, y) == (x * y) \div SCALE

Min2(a, b) == IF a <= b THEN a ELSE b

Max2(a, b) == IF a >= b THEN a ELSE b

(***************************************************************************)
(* string-utils.js                                                         *)
(***************************************************************************)

\* the running minimum of the sequence g: after the round with step s,
\* element j is the minimum of g over (j-2s+1)..j
RECURSIVE PrefixMin(_, _)
PrefixMin(g, s) ==
    IF s >= Len(g) THEN g
    ELSE PrefixMin(
            Strict([j \in 1..Len(g) |-> IF j > s THEN Min2(g[j], g[j - s]) ELSE g[j]]),
            2 * s)

\* row i of the matrix of levenshteinDistance from row i-1, a row being the
\* sequence of matrix[i][0..m]: matrix[i][j] is the minimum of
\* matrix[i-1][j] + 1, matrix[i-1][j-1] + cost and matrix[i][j-1] + 1, the
\* last of which makes the row a running minimum
LevRow(prev, i, str1, str2) ==
    LET m == Len(str2)
        base == Strict([c \in 1..(m + 1) |->
                   IF c = 1 THEN i
                   ELSE Min2(prev[c] + 1,
                             prev[c - 1] + (IF str1[i] = str2[c - 1] THEN 0 ELSE 1))])
        Row(pm) == Strict([c \in 1..(m + 1) |-> pm[c] + c])
    IN  Row(PrefixMin(Strict([c \in 1..(m + 1) |-> base[c] - c]), 1))

\* rows lo..hi of the matrix, from row lo-1
RECURSIVE LevRows(_, _, _, _, _)
LevRows(prev, lo, hi, str1, str2) ==
    IF lo > hi THEN prev
    ELSE IF lo = hi THEN LevRow(prev, lo, str1, str2)
    ELSE LET mid == (lo + hi) \div 2
             upper == LevRows(prev, lo, mid, str1, str2)
         IN  IF Len(upper) = 0 THEN upper
             ELSE LevRows(upper, mid + 1, hi, str1, str2)

levenshteinDistance(str1, str2) ==
    LevRows(Strict([c \in 1..(Len(str2) + 1) |-> c - 1]), 1, Len(str1),
            str1, str2)[Len(str2) + 1]

levenshteinSimilarity(str1, str2) ==
    IF str1 = str2 THEN SCALE
    ELSE IF Len(str1) = 0 \/ Len(str2) = 0 THEN 0
         ELSE SCALE - FDiv(levenshteinDistance(str1, str2),
                           Max2(Len(str1), Len(str2)))

\* the "find matches" loop of jaroWinklerSimilarity for i in lo..hi: the
\* positions of str2 matched, in the order of i, after those of `matched`
RECURSIVE JaroMatches(_, _, _, _, _, _)
JaroMatches(str1, str2, window, lo, hi, matched) ==
    IF lo > hi THEN matched
    ELSE IF lo = hi
      THEN LET used == {matched[k] : k \in 1..Len(matched)}
               Free(j) == j \notin used /\ str1[lo] = str2[j]
               j0 == FirstWhere(Max2(1, lo - window),
                                Min2(lo + window, Len(str2)), Free)
           IN  IF j0 = 0 THEN matched ELSE Append(matched, j0)
    ELSE LET mid == (lo + hi) \div 2
             first == JaroMatches(str1, str2, window, lo, mid, matched)
         IN  IF Len(first) < 0 THEN first
             ELSE JaroMatches(str1, str2, window, mid + 1, hi, first)

\* the characters of str at the positions of the set pos, in increasing order
CharsAt(str, pos) ==
    LET In(i) == i \in pos
        idx == SelectSeq([i \in 1..Len(str) |-> i], In)
    IN  Strict([k \in 1..Len(idx) |-> str[idx[k]]])

jaroWinklerSimilarity(str1, str2) ==
    IF str1 = str2 THEN SCALE
    ELSE IF Len(str1) = 0 \/ Len(str2) = 0 THEN 0
    ELSE
      LET matchWindow == (Max2(Len(str1), Len(str2)) \div 2) - 1
          limit == Min2(Min2(Len(str1), Len(str2)), 4)
          Differ(i) == str1[i] # str2[i]
          PrefixLength(d) == IF d = 0 THEN limit ELSE d - 1
          \* str1[i] of the matched i, in the order of i, is the character that
          \* was matched at js[k]
          Transpositions(c1, c2) ==
              Cardinality({k \in 1..Len(c1) : c1[k] # c2[k]})
          Jaro(matches, transpositions) ==
              (FDiv(matches, Len(str1)) + FDiv(matches, Len(str2))
                 + FDiv(2 * matches - transpositions, 2 * matches)) \div 3
          Winkler(jaro, prefixLength) ==
              jaro + (prefixLength * (SCALE - jaro)) \div 10
          Of(js) ==
              IF Len(js) = 0 THEN 0
              ELSE Winkler(
                     Jaro(Len(js),
                          Transpositions(
                             Strict([k \in 1..Len(js) |-> str2[js[k]]]),
                             CharsAt(str2, {js[k] : k \in 1..Len(js)}))),
                     PrefixLength(FirstWhere(1, limit, Differ)))
      IN  Of(JaroMatches(str1, str2, matchWindow, 1, Len(str1), <<>>))

jaccardSimilarity(set1, set2) ==
    IF set1 \cup set2 = {} THEN 0
    ELSE FDiv(Cardinality(set1 \cap set2), Cardinality(set1 \cup set2))

substringScore(str1, str2) ==
    IF str1 = str2 THEN SCALE
    ELSE IF Len(str1) = 0 \/ Len(str2) = 0 THEN 0
    ELSE LET shorter == IF Len(str1) < Len(str2) THEN str1 ELSE str2
             longer  == IF Len(str1) < Len(str2) THEN str2 ELSE str1
         IN  IF includes(longer, shorter)
             THEN FDiv(Len(shorter), Len(longer)) ELSE 0

tokenize(text) ==
    LET NonEmpty(w) == Len(w) > 0
    IN  SelectSeq(splitWhitespace(toLowerCase(text)), NonEmpty)

wordPositionSimilarity(str1, str2) ==
    LET Of(words1, words2) ==
          LET maxLength == Max2(Len(words1), Len(words2))
              positionScore ==
                  Cardinality({i \in 1..Min2(Len(words1), Len(words2)) :
                                  words1[i] = words2[i]})
          IN  IF Len(words1) = 0 \/ Len(words2) = 0 THEN 0
              ELSE FDiv(positionScore, maxLength)
    IN  Of(tokenize(str1), tokenize(str2))


(***************************************************************************)
(* confidence-calculator.js                                                *)
(***************************************************************************)
MATCH_TYPES == {"exact", "keyword", "fuzzy", "partial", "ai"}

\* A scaleScore that goes down as the score goes up.
scaleScoreDescending(score, min, max) == max - FMul(score, max - min)

\* scaleScore: min + score * (max - min).
scaleScore(score, min, max) == min + FMul(score, max - min)

\* lengthRatio < 0.7, compared exactly on the integers; 0/0 is NaN in the
\* source and NaN < 0.7 is false.
LengthRatioBelow(queryLength, questionLength) ==
    LET lo == Min2(queryLength, questionLength)
        hi == Max2(queryLength, questionLength)
    IN  hi > 0 /\ lo * 10 < 7 * hi

Clamp01(x) == Max2(0, Min2(SCALE, x))

calculateConfidence(matchType, rawScore, queryLength, questionLength) ==
    LET Keyword(c) == IF queryLength > 50
                        THEN Min2((c * 11) \div 10, SCALE) ELSE c
        Fuzzy(c) == IF LengthRatioBelow(queryLength, questionLength)
                      THEN (c * 9) \div 10 ELSE c
    IN  Clamp01(
          CASE matchType = "exact" -> CONF_EXACT
            [] matchType = "keyword" ->
                 Keyword(scaleScore(rawScore, KEYWORD_MIN_CONFIDENCE,
                                    KEYWORD_MAX_CONFIDENCE))
            [] matchType = "fuzzy" ->
                 Fuzzy(scaleScore(rawScore, FUZZY_MIN_CONFIDENCE,
                                  FUZZY_MAX_CONFIDENCE))
            [] matchType = "partial" ->
                 (scaleScore(rawScore, PARTIAL_MIN_CONFIDENCE,
                             PARTIAL_MAX_CONFIDENCE) * 8) \div 10
            [] matchType = "ai" -> rawScore
            [] OTHER -> 0)

(***************************************************************************)
(* stopwords.js                                                            *)
(***************************************************************************)
ENGLISH_STOPWORDS ==
    {"a", "an", "the", "i", "you", "he", "she", "it", "we", "they", "them",
     "their", "theirs", "me", "him", "her", "us", "my", "your", "his",
     "its", "our", "myself", "yourself", "himself", "herself", "itself",
     "ourselves", "themselves", "this", "that", "these", "those", "in",
     "on", "at", "to", "for", "with", "from", "by", "about", "as", "into",
     "through", "during", "before", "after", "above", "below", "between",
     "under", "over", "of", "off", "up", "down", "out", "and", "or", "but",
     "nor", "so", "yet", "if", "because", "while", "although", "though",
     "unless", "since", "until", "when", "where", "is", "am", "are", "was",
     "were", "be", "been", "being", "have", "has", "had", "having", "do",
     "does", "did", "doing", "will", "would", "shall", "should", "may",
     "might", "must", "can", "could", "get", "got", "getting", "make",
     "made", "making", "go", "went", "going", "gone", "come", "came",
     "coming", "take", "took", "taken", "taking", "see", "saw", "seen",
     "seeing", "know", "knew", "known", "knowing", "think", "thought",
     "thinking", "say", "said", "saying", "tell", "told", "telling",
     "give", "gave", "given", "giving", "find", "found", "finding", "use",
     "used", "using", "want", "wanted", "wanting", "work", "worked",
     "working", "call", "called", "calling", "try", "tried", "trying",
     "ask", "asked", "asking", "need", "needed", "needing", "feel", "felt",
     "feeling", "become", "became", "becoming", "leave", "left", "leaving",
     "put", "putting", "not", "no", "yes", "all", "any", "some", "many",
     "much", "more", "most", "few", "less", "least", "each", "every",
     "both", "either", "neither", "other", "another", "such", "same",
     "different", "very", "too", "quite", "rather", "just", "only", "even",
     "also", "still", "here", "there", "now", "then", "today", "tomorrow",
     "yesterday", "always", "never", "sometimes", "often", "usually",
     "seldom", "again", "back", "away", "around", "than", "once", "twice",
     "one", "two", "first", "second", "last", "next", "new", "old", "good",
     "bad", "big", "small", "long", "short", "high", "low", "right",
     "near", "far", "well", "better", "best", "worse", "worst", "own",
     "sure", "certain", "however", "therefore", "thus", "hence",
     "moreover", "furthermore", "etc", "ie", "eg", "vs", "via"}

QUESTION_WORDS ==
    {"what", "when", "where", "which", "who", "whom", "whose", "why", "how"}

IMPORTANT_QUALIFIERS ==
    {"not", "never", "always", "only", "must", "should", "can", "cannot",
     "true", "false", "correct", "incorrect", "right", "wrong"}

StopwordSet == {Chars(w) : w \in ENGLISH_STOPWORDS}

KeptWordSet == {Chars(w) : w \in QUESTION_WORDS \cup IMPORTANT_QUALIFIERS}

QuestionWordSet == {Chars(w) : w \in QUESTION_WORDS}

isStopword(word) ==
    IF word \in KeptWordSet THEN FALSE ELSE word \in StopwordSet

(***************************************************************************)
(* keyword-extractor.js                                                    *)
(***************************************************************************)
\* Math.log on the ratios of small integers, to four decimals.
LnInt(n) ==
    CASE n = 1 -> 0
      [] n = 2 -> 6931
      [] n = 3 -> 10986
      [] n = 4 -> 13863
      [] n = 5 -> 16094
      [] n = 6 -> 17918
      [] n = 7 -> 19459
      [] n = 8 -> 20794

MathLogRatio(a, b) == LnInt(a) - LnInt(b)

Count(words, word) == Len(SelectSeq(words, LAMBDA w : w = word))

MaxFreq(words) ==
    LET Greatest(freqs) == CHOOSE f \in freqs : \A g \in freqs : g <= f
    IN  Greatest({Count(words, words[i]) : i \in 1..Len(words)})

\* The not-a-number value of an importance: a number no importance takes,
\* on which no arithmetic is done and which every comparison answers with
\* false.
NaN == 0 - (SCALE * SCALE)

\* wordFrequency is a plain object: the lower-case word that names a
\* property it inherits reads as that property, not as undefined, and its
\* count becomes a string.
InheritedProperties == {Chars("constructor")}

\* Object.values(wordFrequency) holds a value that is not a number.
HasInherited(allWords) == \E k \in 1..Len(allWords) : allWords[k] \in InheritedProperties

\* tf * idf * 10 capped at 1, with idf = ln(maxFreq / (freq + 1)); maxFreq,
\* and with it every importance, is NaN when a count is not a number.
calculateWordImportance(word, allWords) ==
    LET Importance(freq, idf) == Min2((freq * idf * 10) \div Len(allWords), SCALE)
        Of(freq) == Importance(freq, MathLogRatio(MaxFreq(allWords), freq + 1))
    IN  IF HasInherited(allWords) THEN NaN ELSE Of(Count(allWords, word))

\* a < b and a >= b of two importances.
LessThan(a, b) == a # NaN /\ b # NaN /\ a < b
AtLeast(a, b) == a # NaN /\ b # NaN /\ a >= b

NGramAt(words, i, n) == SubSeq(words, i, i + n - 1)

\* The start positions of the n-grams that hold a content word.
extractNGrams(words, n) ==
    SelectSeq(Strict([i \in 1..Max2(0, Len(words) - n + 1) |-> i]),
              LAMBDA i : \E k \in i..(i + n - 1) : ~isStopword(words[k]))

RECURSIVE SumImportance(_, _, _)
SumImportance(phraseWords, allWords, k) ==
    IF k > Len(phraseWords) THEN 0
    ELSE calculateWordImportance(phraseWords[k], allWords)
         + SumImportance(phraseWords, allWords, k + 1)

PhraseKeyword(words, i, n) ==
    LET Boosted(avgImportance) == Min2((avgImportance * 15) \div 10, SCALE)
        Of(phraseWords) ==
          [word |-> joinSpace(phraseWords),
           importance |-> IF HasInherited(words) THEN NaN
                          ELSE Boosted(SumImportance(phraseWords, words, 1) \div n)]
    IN  Of(NGramAt(words, i, n))

\* Array.prototype.sort with (a, b) => b.importance - a.importance: stable,
\* descending; the importances of one text are all numbers or all NaN, and
\* a comparator that returns NaN leaves the order as it is.
SortByImportance(kws) ==
    LET n == Len(kws)
        rank(k) == Cardinality({j \in 1..n :
                                    LessThan(kws[k].importance, kws[j].importance)})
                   + Cardinality({j \in 1..(k - 1) :
                                    /\ ~LessThan(kws[k].importance, kws[j].importance)
                                    /\ ~LessThan(kws[j].importance, kws[k].importance)})
                   + 1
    IN  Strict([p \in 1..n |-> kws[CHOOSE k \in 1..n : rank(k) = p]])

Deduplicate(kws) ==
    LET keep == SelectSeq(Strict([k \in 1..Len(kws) |-> k]),
                   LAMBDA k : \A j \in 1..(k - 1) : kws[j].word # kws[k].word)
    IN  Strict([p \in 1..Len(keep) |-> kws[keep[p]]])

\* The words of the normalized text that are long enough.
KeywordWords(normalizedText) ==
    SelectSeq(splitWhitespace(normalizedText),
              LAMBDA w : Len(w) >= MIN_KEYWORD_LENGTH)

\* The single words that are kept as keywords.
SingleWords(words) ==
    SelectSeq(words, LAMBDA w :
        /\ ~(isStopword(w) /\ w \notin QuestionWordSet)
        /\ Len(w) >= MIN_KEYWORD_LENGTH
        /\ Len(w) <= MAX_KEYWORD_LENGTH
        /\ ~LessThan(calculateWordImportance(w, words), IMPORTANCE_THRESHOLD))

SingleKeywords(words, singles) ==
    Strict([k \in 1..Len(singles) |->
       [word |-> singles[k],
        importance |-> calculateWordImportance(singles[k], words)]])

\* The phrases of n words that are kept as keywords.
PhraseKeywords(words, starts, n) ==
    SelectSeq(Strict([k \in 1..Len(starts) |-> PhraseKeyword(words, starts[k], n)]),
              LAMBDA kw : AtLeast(kw.importance, IMPORTANCE_THRESHOLD))

\* The first maxKeywords of the keywords.
TopKeywords(unique, maxKeywords) ==
    SubSeq(unique, 1, Min2(Len(unique), maxKeywords))

\* The bigrams and the trigrams that are kept as keywords.
Phrases(words, includePhrases) ==
    IF includePhrases
    THEN PhraseKeywords(words, extractNGrams(words, 2), 2)
           \o PhraseKeywords(words, extractNGrams(words, 3), 3)
    ELSE <<>>

\* extractKeywords from the words on: singles, bigrams and trigrams, sorted
\* and without duplicates.
KeywordsWith(words, maxKeywords, includePhrases) ==
    IF Len(words) = 0 THEN <<>>
    ELSE TopKeywords(Deduplicate(SortByImportance(
            SingleKeywords(words, SingleWords(words))
              \o Phrases(words, includePhrases))), maxKeywords)

KeywordsOfWords(words) == KeywordsWith(words, MAX_KEYWORDS, TRUE)

extractKeywordsWith(text, maxKeywords, includePhrases) ==
    IF ~IsString(text) \/ Len(text) = 0 THEN <<>>
    ELSE KeywordsWith(KeywordWords(normalizeForKeywords(text)),
                      maxKeywords, includePhrases)

extractKeywords(text) == extractKeywordsWith(text, MAX_KEYWORDS, TRUE)


(***************************************************************************)
(* hash.js                                                                 *)
(***************************************************************************)
\* The text of the long question of the corpus and of the over-long query.
LongQuestion == Chars("explain ") \o Strict([i \in 1..500 |-> "z"])

LongQuery == Strict([i \in 1..501 |-> "z"])

\* SHA-256 on the texts that the corpus and the queries give to it: the
\* first 24 bits of the digest, which order the digests as their hex
\* strings do.
Sha256Digests ==
    { <<Chars("what is the capital of france|1|geo.txt"), 11154377>>,
      <<Chars("data data data science|4|geo.txt"), 4131142>>,
      <<Chars("what is the capital of france|1|geo2.txt"), 14923315>>,
      <<Chars("what is the capital of france|4|geo2.txt"), 10416524>>,
      <<LongQuestion \o Chars("|7|geo2.txt"), 16336799>>,
      <<Chars("What is the capital of France?"), 1134665>>,
      <<Chars("What is the capital of france"), 1703855>>,
      <<Chars("what is the capital of france"), 14168766>>,
      <<Chars("data data data science"), 5954025>>,
      <<LongQuestion, 368871>>,
      <<Chars("data data data of science"), 129462>>,
      <<Chars("what is the capitol of france"), 11808646>>,
      <<Chars("what is the capital"), 16072832>>,
      <<Chars(" hi "), 417949>>,
      <<LongQuery, 5284569>>,
      <<Chars("what is the capital of france|1|capital.txt"), 13502975>>,
      <<Chars("capital France"), 3332131>> }

sha256(text) == (CHOOSE e \in Sha256Digests : e[1] = text)[2]

DigitChars == <<"0", "1", "2", "3", "4", "5", "6", "7", "8", "9">>

RECURSIVE NumberToString(_)
NumberToString(n) ==
    IF n < 10 THEN <<DigitChars[n + 1]>>
    ELSE NumberToString(n \div 10) \o <<DigitChars[(n % 10) + 1]>>

generateQuestionId(normalizedQuestion, lineNumber, fileName) ==
    sha256(normalizedQuestion \o <<"|">> \o NumberToString(lineNumber)
             \o <<"|">> \o fileName)

generateCacheKey(query) == sha256(query)

(***************************************************************************)
(* txt-parser.js                                                           *)
(***************************************************************************)
MAX_QUESTION_LENGTH == 5000
MAX_ANSWER_LENGTH == 50000
MIN_QUESTION_LENGTH == 3

IsBlank(line) == trim(line) = <<>>

\* The first line from i on that is not blank, Len(lines) + 1 if none.
SkipBlank(lines, i) ==
    LET Or(j) == IF j = 0 THEN Len(lines) + 1 ELSE j
    IN  Or(FirstWhere(i, Len(lines), LAMBDA k : ~IsBlank(lines[k])))

RECURSIVE ExtractPairsFrom(_, _)

\* The pair of the question line qi and the answer line ai, if the question
\* is long enough, and the pairs after it.
PairAt(lines, qi, ai, question, answer) ==
    IF Len(question) < MIN_QUESTION_LENGTH
      THEN ExtractPairsFrom(lines, ai + 1)
    ELSE << [question |-> SubSeq(question, 1,
                                 Min2(Len(question), MAX_QUESTION_LENGTH)),
             answer |-> SubSeq(answer, 1, Min2(Len(answer), MAX_ANSWER_LENGTH)),
             lineNumber |-> qi] >>
         \o ExtractPairsFrom(lines, ai + 1)

PairsAt(lines, qi, ai) ==
    IF qi > Len(lines) \/ ai > Len(lines) THEN <<>>
    ELSE PairAt(lines, qi, ai, trim(lines[qi]), trim(lines[ai]))

PairsFromQuestion(lines, qi) == PairsAt(lines, qi, SkipBlank(lines, qi + 1))

ExtractPairsFrom(lines, i) == PairsFromQuestion(lines, SkipBlank(lines, i))

extractQuestionAnswerPairs(lines) == ExtractPairsFrom(lines, 1)

\* The question object: the original pair, the processed fields that the
\* engine reads, and the id.
QuestionObject(question, answer, lineNumber, fileName, normalizedQuestion) ==
    [id |-> generateQuestionId(normalizedQuestion, lineNumber, fileName),
     question |-> question,
     answer |-> answer,
     lineNumber |-> lineNumber,
     fileName |-> fileName,
     normalizedQuestion |-> normalizedQuestion,
     keywords |-> extractKeywords(question)]

buildQuestionObject(question, answer, lineNumber, fileName) ==
    QuestionObject(question, answer, lineNumber, fileName,
                   normalizeForMatching(question))

\* The question objects of the pairs of a file.
QuestionObjects(pairs, fileName) ==
    Strict([k \in 1..Len(pairs) |->
        buildQuestionObject(pairs[k].question, pairs[k].answer,
                            pairs[k].lineNumber, fileName)])

\* parse: the questions of a file, or the failure of the preprocessing.
parse(file) ==
    IF ~file.validEncoding
      THEN [ok |-> FALSE, code |-> "FILE_INVALID_FORMAT", questions |-> <<>>]
      ELSE [ok |-> TRUE, code |-> "",
            questions |-> QuestionObjects(extractQuestionAnswerPairs(file.lines),
                                          file.fileName)]

(***************************************************************************)
(* The files that are uploaded and the queries that are asked.             *)
(***************************************************************************)
Files ==
    << [fileName |-> Chars("geo.txt"), validEncoding |-> TRUE,
        lines |-> << Chars("What is the capital of france"), Chars("Paris"),
                     <<>>,
                     Chars("data data data science"), Chars("Statistics") >>],
       [fileName |-> Chars("geo2.txt"), validEncoding |-> TRUE,
        lines |-> << Chars("What is the capital of France?"),
                     Chars("Paris, France"), <<>>,
                     Chars("what is the capital of france"), Chars("paris"),
                     <<>>,
                     LongQuestion, Chars("n/a") >>],
       [fileName |-> Chars("empty.txt"), validEncoding |-> TRUE,
        lines |-> << Chars("What is this") >>],
       [fileName |-> Chars("bad.txt"), validEncoding |-> FALSE,
        lines |-> << >>],
       [fileName |-> Chars("capital.txt"), validEncoding |-> TRUE,
        lines |-> << Chars("What is the capital of france"), Chars("Paris") >>] >>

FileIds == 1..Len(Files)

Parsed == Strict([f \in FileIds |-> parse(Files[f])])

\* Every question object that an upload can put into the store.
AllDocs == UNION {Range(Parsed[f].questions) : f \in FileIds}

DocIds == {d.id : d \in AllDocs}

Doc(id) == CHOOSE d \in AllDocs : d.id = id

Queries ==
    << Chars("What is the capital of France?"),
       Chars("What is the capital of france"),
       Chars("what is the capital of france"),
       Chars("data data data science"),
       LongQuestion,
       Chars("data data data of science"),
       Chars("what is the capitol of france"),
       Chars("what is the capital"),
       Chars(" hi "),
       <<>>,
       NotAString,
       LongQuery,
       Chars("capital France") >>

QueryIds == 1..Len(Queries)

\* The files that are uploaded and the queries that are asked while calls
\* and writes interleave: all but the file and the query of the partial
\* match scenario, which is run on a store that nothing writes to.
UploadedFileIds == {f \in FileIds : Files[f].fileName # Chars("capital.txt")}

AskedQueryIds == {q \in QueryIds : Queries[q] # Chars("capital France")}


(***************************************************************************)
(* The state.                                                              *)
(***************************************************************************)
VARIABLES
    cache,        \* LRUCache.cache: the entries of the Map, oldest first
    maxSize,      \* LRUCache.maxSize
    ttl,          \* LRUCache.ttl
    now,          \* Date.now()
    lastSet,      \* history: per key, what the last set(key, v) stored, when,
                  \* whether the key was evicted or cleared since, and when
                  \* a get first returned it
    lastOp,       \* history: the last operation on the cache and its result
    questions,    \* the keys of the questions store
    importInfo,   \* the import_info record of the metadata store
    uploadResult, \* chrome.storage.local: uploadResult
    dbOpen,       \* IndexedDBManager.isInitialized
    faults,       \* the store and platform operations that have failed
    call,         \* per caller: the findAnswer call in flight
    writer,       \* per sender: the upload or clear request in flight
    setCount,     \* history: the number of cache.set calls of the engine
    inserted,     \* history: per cache key, setCount at its insertion
    calls,        \* history: the findAnswer calls started
    writes,       \* history: the upload and clear requests started
    keywordIndex, \* what the keywords index of the questions store holds
    applied       \* a function of the library called on its own: its
                  \* arguments and what it has returned

(***************************************************************************)
(* indexeddb-manager.js: what one read transaction returns from the        *)
(* questions store.  The store is keyed by id, S is the set of its keys    *)
(* and Doc(id) is the record under a key.                                  *)
(***************************************************************************)
null == [isNull |-> TRUE]

\* The keys of S in primary-key order, the order of getAll.
RECURSIVE SortedIds(_)
SortedIds(S) ==
    IF S = {} THEN <<>>
    ELSE LET lo == CHOOSE a \in S : \A b \in S : a <= b
         IN  <<lo>> \o SortedIds(S \ {lo})

\* The record of the first of the keys, null if there is none.
FirstDoc(hits) == IF hits = <<>> THEN null ELSE Doc(hits[1])

\* index.get on the normalizedQuestion index: the record with the lowest
\* primary key among those of the key.
getQuestionByNormalizedText(S, normalizedText) ==
    FirstDoc(SelectSeq(SortedIds(S),
                LAMBDA id : Doc(id).normalizedQuestion = normalizedText))

\* The keys that schema.js declares for the keywords index.
extractKey(obj) == {obj.keywords[k].word : k \in 1..Len(obj.keywords)}

\* The keys of a record in the keywords index.  createStores creates the
\* index on the key path processed.keywords with multiEntry: its keys are
\* the items of the array of keywords that are valid keys.  The items are
\* objects {word, importance}, which a database engine does not take as
\* keys, and the index is then empty; schema.js declares the words of the
\* keywords as the keys.  keywordIndex says which of the two the database
\* holds.
IndexKeys(obj) == IF keywordIndex = "words" THEN extractKey(obj) ELSE {}

\* index.getAll(keyword) on the keywords index.
getQuestionsByKeyword(S, keyword) ==
    SelectSeq(SortedIds(S), LAMBDA id : keyword \in IndexKeys(Doc(id)))

getAllQuestions(S) == SortedIds(S)

\* questionMap.set(question.id, question) for each of the questions: a Map
\* keeps the order of the first insertion of a key.
MapSetAll(questionMap, ids) ==
    questionMap \o SelectSeq(ids,
        LAMBDA id : \A j \in 1..Len(questionMap) : questionMap[j] # id)

(***************************************************************************)
(* exact-matcher.js, keyword-matcher.js, fuzzy-matcher.js,                 *)
(* partial-matcher.js.  The candidates are sequences of ids.               *)
(***************************************************************************)
\* An exact match with the confidence of the HIGH threshold.
exactMatchBelowExact(normalizedQuery, question) ==
    IF question = null THEN null
    ELSE [question |-> question.id, matchType |-> "exact",
          confidence |-> CONF_HIGH, rawScore |-> SCALE]

exactMatch(normalizedQuery, question) ==
    IF question = null THEN null
    ELSE [question |-> question.id, matchType |-> "exact",
          confidence |-> calculateConfidence("exact", SCALE, Len(normalizedQuery),
                                             Len(question.normalizedQuestion)),
          rawScore |-> SCALE]

RECURSIVE SumOf(_, _)
SumOf(f, S) ==
    IF S = {} THEN 0
    ELSE LET x == CHOOSE x \in S : TRUE IN f[x] + SumOf(f, S \ {x})

\* A Map built from [word, importance] pairs: the last pair of a word wins.
ImportanceMap(kws) ==
    [w \in {kws[k].word : k \in 1..Len(kws)} |->
        kws[LastWhere(1, Len(kws), LAMBDA k : kws[k].word = w)].importance]

calculateImportanceBoost(queryKeywords, candidateKeywords) ==
    LET candidateWords == {candidateKeywords[k].word : k \in 1..Len(candidateKeywords)}
        Boost(matchedImportance, totalImportance) ==
          IF totalImportance > 0 THEN FDiv(matchedImportance, totalImportance) ELSE 0
        Of(queryMap) ==
          IF \E w \in DOMAIN queryMap : queryMap[w] = NaN THEN 0
          ELSE Boost(SumOf(queryMap, DOMAIN queryMap \cap candidateWords),
                     SumOf(queryMap, DOMAIN queryMap))
    IN  Of(ImportanceMap(queryKeywords))

\* The first candidate with the greatest score, if that score is above 0;
\* 0 if there is none.
BestIndex(scores) ==
    LET n == Len(scores)
        Above0(best) == IF n = 0 \/ scores[best] <= 0 THEN 0 ELSE best
    IN  Above0(FirstWhere(1, n, LAMBDA k : \A j \in 1..n : scores[j] <= scores[k]))

\* The score of the best candidate, 0 if there is none.
BestScore(scores, best) == IF best = 0 THEN 0 ELSE scores[best]

KeywordScore(queryKeywords, candidate) ==
    LET querySet == {queryKeywords[k].word : k \in 1..Len(queryKeywords)}
        Score(similarity, importanceBoost) ==
          FMul(similarity, SCALE + (importanceBoost * 2) \div 10)
    IN  Score(jaccardSimilarity(querySet, extractKey(candidate)),
              calculateImportanceBoost(queryKeywords, candidate.keywords))

\* keywordMatch after its read: candidates is what getQuestionsByKeywords
\* returned.
\* The match of keywordMatch on the best candidate and its score.
KeywordMatchOf(queryKeywords, candidates, best, bestScore) ==
    IF bestScore < KEYWORD_MIN_OVERLAP THEN null
    ELSE [question |-> candidates[best], matchType |-> "keyword",
          confidence |-> calculateConfidence("keyword", bestScore,
                            Len(queryKeywords),
                            Len(Doc(candidates[best]).keywords)),
          rawScore |-> bestScore]

KeywordBest(queryKeywords, candidates, scores) ==
    KeywordMatchOf(queryKeywords, candidates, BestIndex(scores),
                   BestScore(scores, BestIndex(scores)))

keywordMatch(queryKeywords, candidates) ==
    IF Len(queryKeywords) = 0 \/ Len(candidates) = 0 THEN null
    ELSE KeywordBest(queryKeywords, candidates,
            Strict([k \in 1..Len(candidates) |->
                KeywordScore(queryKeywords, Doc(candidates[k]))]))

FuzzySimilarity(normalizedQuery, candidateText) ==
    (levenshteinSimilarity(normalizedQuery, candidateText) * 6
       + jaroWinklerSimilarity(normalizedQuery, candidateText) * 4) \div 10

PartialScore(normalizedQuery, candidateText) ==
    (substringScore(normalizedQuery, candidateText) * 7
       + wordPositionSimilarity(normalizedQuery, candidateText) * 3) \div 10


\* A validateQuery that measures the query as it is, not trimmed.
validateQueryUntrimmed(query) ==
    IF ~IsString(query) \/ Len(query) = 0 THEN "QUERY_EMPTY"
    ELSE IF Len(query) < MIN_QUERY_LENGTH THEN "QUERY_EMPTY"
    ELSE IF Len(query) > MAX_QUERY_LENGTH THEN "QUERY_TOO_LONG"
    ELSE ""

\* validateQuery: the error code that it throws, "" if it returns.
validateQuery(query) ==
    IF ~IsString(query) \/ Len(query) = 0 THEN "QUERY_EMPTY"
    ELSE IF Len(trim(query)) < MIN_QUERY_LENGTH THEN "QUERY_EMPTY"
    ELSE IF Len(trim(query)) > MAX_QUERY_LENGTH THEN "QUERY_TOO_LONG"
    ELSE ""

\* preprocessQuery
preprocessQuery(query) ==
    [normalizedQuery |-> normalizeForMatching(query),
     keywords |-> extractKeywords(query)]

\* What the engine computes from each query of Queries, computed once.
Validation == Strict([q \in QueryIds |-> validateQuery(Queries[q])])

Preprocessed ==
    Strict([q \in QueryIds |->
        IF Validation[q] = "" THEN preprocessQuery(Queries[q])
        ELSE [normalizedQuery |-> <<>>, keywords |-> <<>>]])

CacheKeys ==
    Strict([q \in QueryIds |->
        IF Validation[q] = "" THEN generateCacheKey(Queries[q]) ELSE 0])

NormalizedQueries ==
    {Preprocessed[q].normalizedQuery : q \in {p \in QueryIds : Validation[p] = ""}}

NormalizedQuestions == {d.normalizedQuestion : d \in AllDocs}

\* The similarities of the normalized queries and the normalized questions,
\* computed once.
FuzzyTable ==
    {<<p[1], p[2], FuzzySimilarity(p[1], p[2])>> :
        p \in NormalizedQueries \X NormalizedQuestions}

PartialTable ==
    {<<p[1], p[2], PartialScore(p[1], p[2])>> :
        p \in NormalizedQueries \X NormalizedQuestions}

Lookup(table, a, b) == (CHOOSE t \in table : t[1] = a /\ t[2] = b)[3]

\* The match of fuzzyMatch on the best candidate and its score.
FuzzyMatchOf(normalizedQuery, limitedCandidates, best, bestScore) ==
    IF bestScore < FUZZY_MIN_SIMILARITY THEN null
    ELSE [question |-> limitedCandidates[best], matchType |-> "fuzzy",
          confidence |-> calculateConfidence("fuzzy", bestScore,
                            Len(normalizedQuery),
                            Len(Doc(limitedCandidates[best]).normalizedQuestion)),
          rawScore |-> bestScore]

FuzzyBest(normalizedQuery, limitedCandidates, scores) ==
    FuzzyMatchOf(normalizedQuery, limitedCandidates, BestIndex(scores),
                 BestScore(scores, BestIndex(scores)))

\* fuzzyMatch on the first FUZZY_MAX_CANDIDATES candidates.
FuzzyLimited(normalizedQuery, limitedCandidates) ==
    FuzzyBest(normalizedQuery, limitedCandidates,
        Strict([k \in 1..Len(limitedCandidates) |->
            Lookup(FuzzyTable, normalizedQuery,
                   Doc(limitedCandidates[k]).normalizedQuestion)]))

\* A fuzzyMatch that looks at every candidate.
fuzzyMatchOnAll(normalizedQuery, candidates) ==
    IF Len(candidates) = 0 THEN null
    ELSE FuzzyLimited(normalizedQuery, candidates)

fuzzyMatch(normalizedQuery, candidates) ==
    IF Len(candidates) = 0 THEN null
    ELSE FuzzyLimited(normalizedQuery,
            SubSeq(candidates, 1, Min2(Len(candidates), FUZZY_MAX_CANDIDATES)))

\* The match of partialMatch on the best candidate and its score.
PartialMatchOf(normalizedQuery, candidates, best, bestScore) ==
    IF bestScore < PARTIAL_MIN_SCORE THEN null
    ELSE [question |-> candidates[best], matchType |-> "partial",
          confidence |-> calculateConfidence("partial", bestScore,
                            Len(normalizedQuery),
                            Len(Doc(candidates[best]).normalizedQuestion)),
          rawScore |-> bestScore]

PartialBest(normalizedQuery, candidates, scores) ==
    PartialMatchOf(normalizedQuery, candidates, BestIndex(scores),
                   BestScore(scores, BestIndex(scores)))

partialMatch(normalizedQuery, candidates) ==
    IF Len(candidates) = 0 THEN null
    ELSE PartialBest(normalizedQuery, candidates,
            Strict([k \in 1..Len(candidates) |->
                Lookup(PartialTable, normalizedQuery,
                       Doc(candidates[k]).normalizedQuestion)]))


cacheVars == <<cache, maxSize, ttl, now, lastSet, lastOp>>

engineVars == <<keywordIndex, questions, importInfo, uploadResult, dbOpen, faults,
                call, writer, setCount, inserted, calls, writes, applied>>

vars == <<cache, maxSize, ttl, now, lastSet, lastOp, questions, importInfo,
          uploadResult, dbOpen, faults, call, writer, setCount, inserted,
          calls, writes, keywordIndex, applied>>

(***************************************************************************)
(* cache-manager.js: LRUCache                                              *)
(***************************************************************************)
MapHas(map, key) == \E i \in 1..Len(map) : map[i].key = key

MapGet(map, key) == map[CHOOSE i \in 1..Len(map) : map[i].key = key]

MapDelete(map, key) == SelectSeq(map, LAMBDA e : e.key # key)

\* A get that renews the timestamp of the entry that it returns.
LRUGetRenewing(map, key, time, ttlMs) ==
    IF ~MapHas(map, key) THEN [cache |-> map, value |-> null]
    ELSE LET entry == MapGet(map, key)
         IN  IF time - entry.timestamp > ttlMs
               THEN [cache |-> MapDelete(map, key), value |-> null]
               ELSE [cache |-> Append(MapDelete(map, key),
                                      [entry EXCEPT !.timestamp = time]),
                     value |-> entry.value]

\* A get that leaves the entry that it returns where it is.
LRUGetInPlace(map, key, time, ttlMs) ==
    IF ~MapHas(map, key) THEN [cache |-> map, value |-> null]
    ELSE LET entry == MapGet(map, key)
         IN  IF time - entry.timestamp > ttlMs
               THEN [cache |-> MapDelete(map, key), value |-> null]
               ELSE [cache |-> map, value |-> entry.value]

\* get: a miss or an expired entry gives null, and the expired entry goes; a
\* hit moves the entry, as it is, to the end.
LRUGet(map, key, time, ttlMs) ==
    IF ~MapHas(map, key) THEN [cache |-> map, value |-> null]
    ELSE LET entry == MapGet(map, key)
         IN  IF time - entry.timestamp > ttlMs
               THEN [cache |-> MapDelete(map, key), value |-> null]
               ELSE [cache |-> Append(MapDelete(map, key), entry),
                     value |-> entry.value]

\* A set that evicts nothing.
LRUSetKeepingAll(map, key, value, time, size) ==
    Append(MapDelete(map, key), [key |-> key, value |-> value, timestamp |-> time])

\* set: the entry of the key goes, then the oldest entry if the cache is
\* full, and the new entry is added at the end.
LRUSet(map, key, value, time, size) ==
    LET removed == MapDelete(map, key)
        evicted == IF Len(removed) >= size THEN Tail(removed) ELSE removed
    IN  Append(evicted, [key |-> key, value |-> value, timestamp |-> time])

LRUClear(map) == <<>>


(***************************************************************************)
(* Bounds of the model.                                                    *)
(***************************************************************************)
MaxCacheSize == 2

MaxTtl == 1

MaxTicks == 2

MaxCalls == 2

MaxWrites == 1

MaxFaults == 1

Callers == {"c1"}

Senders == {"w1", "w2"}

\* The sender of the requests that are made while calls of findAnswer are
\* in progress.
SoleSender == {"w1"}

\* The requests that are handled at one time when no call of findAnswer is
\* in progress.
MaxMessages == 2

\* The keys and the values of the operations on a cache of its own.
CacheKeyChoices == {CacheKeys[1], CacheKeys[4], CacheKeys[6]}

CacheValueChoices == {[success |-> TRUE, tier |-> 1], [success |-> TRUE, tier |-> 3]}

\* The clock advances by the time to live of the cache.
ClockStep == ttl

(***************************************************************************)
(* The state after construction.  The store is persistent: it holds what   *)
(* an earlier session imported.  The cache is empty.                       *)
(***************************************************************************)
IdsOf(f) == {d.id : d \in Range(Parsed[f].questions)}

IdleCall ==
    [pc |-> "idle", q |-> 0, opts |-> null, trace |-> <<>>, hasData |-> FALSE,
     kw |-> 0, questionMap |-> <<>>, candidates |-> <<>>, result |-> null,
     during |-> {}, observed |-> {}]

\* No function of the library is called on its own.
NotApplied == [fn |-> "none"]

IdleWriter ==
    [pc |-> "idle", op |-> "none", file |-> 0, batch |-> 0, response |-> null,
     changedAt |-> 0 - 1, before |-> {}, query |-> 0, result |-> null]

EngineInit ==
    /\ \E f \in {0} \cup {g \in UploadedFileIds : Parsed[g].ok /\ Len(Parsed[g].questions) > 0} :
          /\ questions = (IF f = 0 THEN {} ELSE IdsOf(f))
          /\ importInfo = f
    /\ keywordIndex \in {"words", "empty"}
    /\ uploadResult = FALSE
    /\ dbOpen = FALSE
    /\ faults = 0
    /\ call = [c \in Callers |-> IdleCall]
    /\ writer = [w \in Senders |-> IdleWriter]
    /\ setCount = 0
    /\ inserted = <<>>
    /\ calls = 0
    /\ writes = 0
    /\ applied = NotApplied

Init ==
    /\ cache = <<>>
    /\ maxSize = MAX_SIZE
    /\ ttl = TTL_MS
    /\ now = 0
    /\ lastSet = <<>>
    /\ lastOp = [op |-> "new"]
    /\ EngineInit

\* new LRUCache(maxSize, ttl) with any positive arguments.
InitCache ==
    /\ cache = <<>>
    /\ maxSize \in 1..MaxCacheSize
    /\ ttl \in 1..MaxTtl
    /\ now = 0
    /\ lastSet = <<>>
    /\ lastOp = [op |-> "new"]
    /\ keywordIndex = "words"
    /\ questions = {}
    /\ importInfo = 0
    /\ uploadResult = FALSE
    /\ dbOpen = FALSE
    /\ faults = 0
    /\ call = [c \in Callers |-> IdleCall]
    /\ writer = [w \in Senders |-> IdleWriter]
    /\ setCount = 0
    /\ inserted = <<>>
    /\ calls = 0
    /\ writes = 0
    /\ applied = NotApplied

(***************************************************************************)
(* The operations of a cache, called directly.                             *)
(***************************************************************************)
\* The keys that a set(key, v) on a full cache, or a clear, removes.
EvictedBy(map, key, size) ==
    LET removed == MapDelete(map, key)
    IN  IF Len(removed) >= size THEN {removed[1].key} ELSE {}

MarkGone(history, keys) ==
    [k \in DOMAIN history |->
        IF k \in keys THEN [history[k] EXCEPT !.live = FALSE] ELSE history[k]]

CacheGet(key) ==
    LET r == LRUGet(cache, key, now, ttl)
    IN  /\ cache' = r.cache
        /\ lastOp' = [op |-> "get", key |-> key, value |-> r.value]
        /\ lastSet' = [k \in DOMAIN lastSet |->
                         IF k = key /\ r.value # null
                           THEN [lastSet[k] EXCEPT !.readAt = IF @ < 0 THEN now ELSE @]
                           ELSE lastSet[k]]
        /\ UNCHANGED <<maxSize, ttl, now>>
        /\ UNCHANGED engineVars

CacheSet(key, value) ==
    /\ cache' = LRUSet(cache, key, value, now, maxSize)
    /\ lastSet' = [k \in DOMAIN lastSet \cup {key} |->
                     IF k = key THEN [value |-> value, at |-> now, live |-> TRUE, readAt |-> 0 - 1]
                     ELSE IF k \in EvictedBy(cache, key, maxSize)
                       THEN [lastSet[k] EXCEPT !.live = FALSE]
                       ELSE lastSet[k]]
    /\ lastOp' = [op |-> "set", key |-> key, value |-> value]
    /\ UNCHANGED <<maxSize, ttl, now>>
    /\ UNCHANGED engineVars

\* has(key) is get(key) !== null, with what get does to the entry.
CacheHas(key) ==
    LET r == LRUGet(cache, key, now, ttl)
    IN  /\ cache' = r.cache
        /\ lastOp' = [op |-> "has", key |-> key, value |-> (r.value # null)]
        /\ UNCHANGED <<maxSize, ttl, now, lastSet>>
        /\ UNCHANGED engineVars

CacheClear ==
    /\ cache' = LRUClear(cache)
    /\ lastSet' = MarkGone(lastSet, DOMAIN lastSet)
    /\ lastOp' = [op |-> "clear"]
    /\ UNCHANGED <<maxSize, ttl, now>>
    /\ UNCHANGED engineVars

Tick ==
    /\ now < MaxTicks * ClockStep
    /\ now' = now + ClockStep
    /\ lastOp' = [op |-> "tick"]
    /\ UNCHANGED <<cache, maxSize, ttl, lastSet>>
    /\ UNCHANGED engineVars

NextCache ==
    \/ \E key \in CacheKeyChoices : CacheGet(key)
    \/ \E key \in CacheKeyChoices, value \in CacheValueChoices : CacheSet(key, value)
    \/ \E key \in CacheKeyChoices : CacheHas(key)
    \/ CacheClear
    \/ Tick

SpecCache == InitCache /\ [][NextCache]_vars


(***************************************************************************)
(* Claims on the cache.                                                    *)
(***************************************************************************)
\* C4: a cache built with any positive maxSize never holds more than
\* maxSize entries, after any get, set, has or clear.
C4_SizeWithinMaxSize == Len(cache) <= maxSize

\* A set of a new key on a full cache has evicted the oldest entry.
C4_Witness ==
    /\ lastOp.op = "set"
    /\ Len(cache) = maxSize
    /\ \E k \in DOMAIN lastSet : k # lastOp.key /\ ~lastSet[k].live

\* C5: after set(k, v), as long as k was neither evicted nor cleared, get(k)
\* returns v while at most ttl milliseconds have passed since that set and
\* null after that: the time to live counts from the last set and a get
\* does not extend it.
C5_GetWithinTtl ==
    (lastOp.op = "get" /\ lastOp.key \in DOMAIN lastSet /\ lastSet[lastOp.key].live)
      => IF now - lastSet[lastOp.key].at <= ttl
           THEN lastOp.value = lastSet[lastOp.key].value
           ELSE lastOp.value = null

\* A get returns the value exactly ttl after the set, after an earlier get
\* of the same entry.
C5_Witness ==
    /\ lastOp.op = "get"
    /\ lastOp.key \in DOMAIN lastSet
    /\ lastSet[lastOp.key].live
    /\ lastSet[lastOp.key].readAt >= 0
    /\ lastSet[lastOp.key].readAt < now
    /\ now - lastSet[lastOp.key].at = ttl
    /\ lastOp.value = lastSet[lastOp.key].value


(***************************************************************************)
(* matching-engine.js: findAnswer.  A call is a record that goes from one  *)
(* suspend point of findAnswer to the next.                                *)
(***************************************************************************)
\* The options objects that callers pass: a threshold of 0 is an absent
\* threshold, and a flag is "undefined", "true" or "false".
OptionChoices ==
    << [minConfidence |-> 0, fuzzyEnabled |-> "undefined",
        partialEnabled |-> "undefined", useCache |-> "undefined",
        aiEnabled |-> "undefined"],
       [minConfidence |-> 3000, fuzzyEnabled |-> "undefined",
        partialEnabled |-> "undefined", useCache |-> "undefined",
        aiEnabled |-> "false"],
       [minConfidence |-> 0, fuzzyEnabled |-> "undefined",
        partialEnabled |-> "undefined", useCache |-> "undefined",
        aiEnabled |-> "false"],
       [minConfidence |-> 0, fuzzyEnabled |-> "false",
        partialEnabled |-> "false", useCache |-> "false",
        aiEnabled |-> "false"],
       [minConfidence |-> 9500, fuzzyEnabled |-> "true",
        partialEnabled |-> "true", useCache |-> "true",
        aiEnabled |-> "false"] >>

\* The opts of findAnswer: options.minConfidence || 0.5 and flag !== false.
DefaultOptions(options) ==
    [minConfidence |-> IF options.minConfidence = 0 THEN DEFAULT_MIN_CONFIDENCE
                       ELSE options.minConfidence,
     fuzzyEnabled |-> options.fuzzyEnabled # "false",
     partialEnabled |-> options.partialEnabled # "false",
     useCache |-> options.useCache # "false",
     aiEnabled |-> options.aiEnabled]

\* error-handler.js: handleError
handleError(code) == [success |-> FALSE, error |-> [code |-> code]]

\* A result of a tier that says tier 0.
MatchFoundWithoutTier(match, tier) == [success |-> TRUE, match |-> match, tier |-> 0]

MatchFound(match, tier) == [success |-> TRUE, match |-> match, tier |-> tier]

AiMatchFound(match) ==
    [success |-> TRUE, match |-> match, tier |-> 5, source |-> "ai"]

NoMatchMessage(hasData, aiEnabled) ==
    IF ~hasData
      THEN "No Q&A file uploaded yet. Click the extension icon to upload your questions, or enable AI for instant answers."
    ELSE IF ~aiEnabled
      THEN "No match found in your uploaded files. Enable AI Answering in settings for better results!"
    ELSE "No match found in your database. Enable AI Answering for better results!"

NoMatchFound(hasData, aiEnabled) ==
    [success |-> FALSE, match |-> null,
     message |-> NoMatchMessage(hasData, aiEnabled), tier |-> 0]

\* A return of runMatchingPipeline that caches every result.
FinishCachingEveryResult(rec, result) ==
    IF rec.opts.useCache
      THEN [rec EXCEPT !.pc = "cacheResult", !.result = result]
      ELSE [rec EXCEPT !.pc = "returned", !.result = result]

\* The return of runMatchingPipeline to findAnswer: a successful result
\* goes to cacheResult if the cache is in use.
Finish(rec, result) ==
    IF result.success /\ result.match # null /\ rec.opts.useCache
      THEN [rec EXCEPT !.pc = "cacheResult", !.result = result]
      ELSE [rec EXCEPT !.pc = "returned", !.result = result]

\* The catch of findAnswer.
Caught(rec, code) == [rec EXCEPT !.pc = "returned", !.result = handleError(code)]

\* Tier 5 of runMatchingPipeline.
RemoteTier(rec) ==
    IF rec.opts.aiEnabled # "false"
      THEN [rec EXCEPT !.pc = "ai", !.trace = Append(@, "tier5")]
      ELSE Finish(rec, NoMatchFound(rec.hasData, FALSE))

\* The check of a tier without the threshold.
MeetsWithoutThreshold(match, opts) == match # null

Meets(match, opts) == match # null /\ match.confidence >= opts.minConfidence

\* Tiers 3 and 4 without the early exit: tier 4 is evaluated before the
\* match of tier 3 is returned.
TiersOnCandidatesWithoutEarlyExit(rec, candidates, fuzzyResult, partialResult) ==
    LET r0 == [rec EXCEPT !.candidates = candidates, !.questionMap = <<>>, !.kw = 0]
        r3 == IF rec.opts.fuzzyEnabled
                THEN [r0 EXCEPT !.trace = Append(@, "tier3")] ELSE r0
        r4 == IF rec.opts.partialEnabled
                THEN [r3 EXCEPT !.trace = Append(@, "tier4")] ELSE r3
    IN  IF rec.opts.fuzzyEnabled /\ Meets(fuzzyResult, rec.opts)
          THEN Finish(r4, MatchFound(fuzzyResult, 3))
        ELSE IF rec.opts.partialEnabled /\ Meets(partialResult, rec.opts)
          THEN Finish(r4, MatchFound(partialResult, 4))
        ELSE RemoteTier(r4)

\* Tiers 3 and 4 evaluated whatever the flags of the call are.
TiersOnCandidatesWhateverTheFlags(rec, candidates, fuzzyResult, partialResult) ==
    LET r0 == [rec EXCEPT !.candidates = candidates, !.questionMap = <<>>, !.kw = 0]
        r3 == [r0 EXCEPT !.trace = Append(@, "tier3")]
        r4 == [r3 EXCEPT !.trace = Append(@, "tier4")]
    IN  IF Meets(fuzzyResult, rec.opts)
          THEN Finish(r3, MatchFound(fuzzyResult, 3))
        ELSE IF Meets(partialResult, rec.opts)
          THEN Finish(r4, MatchFound(partialResult, 4))
        ELSE RemoteTier(r4)

\* Tiers 3 and 4 of runMatchingPipeline, on the candidates gathered
\* and the results of fuzzyMatch and partialMatch on them.
TiersOnCandidates(rec, candidates, fuzzyResult, partialResult) ==
    LET r0 == [rec EXCEPT !.candidates = candidates, !.questionMap = <<>>, !.kw = 0]
        r3 == IF rec.opts.fuzzyEnabled
                THEN [r0 EXCEPT !.trace = Append(@, "tier3")] ELSE r0
        r4 == IF rec.opts.partialEnabled
                THEN [r3 EXCEPT !.trace = Append(@, "tier4")] ELSE r3
    IN  IF rec.opts.fuzzyEnabled /\ Meets(fuzzyResult, rec.opts)
          THEN Finish(r3, MatchFound(fuzzyResult, 3))
        ELSE IF rec.opts.partialEnabled /\ Meets(partialResult, rec.opts)
          THEN Finish(r4, MatchFound(partialResult, 4))
        ELSE RemoteTier(r4)

\* Tiers 3 and 4 of runMatchingPipeline, on the candidates gathered.
LocalTiers(rec, candidates) ==
    TiersOnCandidates(rec, candidates,
        fuzzyMatch(Preprocessed[rec.q].normalizedQuery, candidates),
        partialMatch(Preprocessed[rec.q].normalizedQuery, candidates))

Read(rec, S) ==
    [rec EXCEPT !.trace = Append(@, "store.read"), !.observed = @ \cup {S}]

\* A data check that goes on to tier 1 whatever the count is.
GetStatsStepWithoutCheck(rec, S) ==
    LET Checked(r) == [r EXCEPT !.pc = "exact", !.trace = Append(@, "tier1")]
    IN  Checked([Read(rec, S) EXCEPT !.hasData = Len(getAllQuestions(S)) > 0])

\* getStats and the data check; with data, exactMatch is called.
GetStatsStep(rec, S) ==
    LET Checked(r) ==
          IF r.hasData THEN [r EXCEPT !.pc = "exact", !.trace = Append(@, "tier1")]
          ELSE RemoteTier(r)
    IN  Checked([Read(rec, S) EXCEPT !.hasData = Len(getAllQuestions(S)) > 0])

\* The read of tier 1, and the call of keywordMatch if tier 1 does not
\* return.
Tier1(rec, r, exactResult, keywords) ==
    IF Meets(exactResult, rec.opts) THEN Finish(r, MatchFound(exactResult, 1))
    ELSE IF Len(keywords) > 0
      THEN [r EXCEPT !.trace = Append(@, "tier2"),
                     !.pc = "keyword", !.kw = 1, !.questionMap = <<>>]
    ELSE [r EXCEPT !.trace = Append(@, "tier2"), !.pc = "getAll"]

ExactStep(rec, S) ==
    Tier1(rec, Read(rec, S),
          exactMatch(Preprocessed[rec.q].normalizedQuery,
                     getQuestionByNormalizedText(S, Preprocessed[rec.q].normalizedQuery)),
          Preprocessed[rec.q].keywords)

\* One getQuestionsByKeyword of the getQuestionsByKeywords of keywordMatch,
\* and tier 2 after the last one.
Tier2(r, keywordResult) ==
    IF Meets(keywordResult, r.opts)
      THEN Finish([r EXCEPT !.questionMap = <<>>, !.kw = 0],
                  MatchFound(keywordResult, 2))
    ELSE [r EXCEPT !.pc = "candidates", !.kw = 1, !.questionMap = <<>>]

\* The questionMap after the getQuestionsByKeyword of keyword rec.kw.
FoundByKeyword(rec, S, keywords) ==
    MapSetAll(rec.questionMap, getQuestionsByKeyword(S, keywords[rec.kw].word))

KeywordFound(rec, r, keywords, found) ==
    IF rec.kw < Len(keywords)
      THEN [r EXCEPT !.kw = @ + 1, !.questionMap = found]
    ELSE Tier2(r, keywordMatch(keywords, found))

KeywordStep(rec, S) ==
    KeywordFound(rec, Read(rec, S), Preprocessed[rec.q].keywords,
                 FoundByKeyword(rec, S, Preprocessed[rec.q].keywords))

\* One getQuestionsByKeyword of the getQuestionsByKeywords that gathers the
\* candidates, and tiers 3 and 4 after the last one if it found any.
CandidatesFound(rec, r, keywords, found) ==
    IF rec.kw < Len(keywords)
      THEN [r EXCEPT !.kw = @ + 1, !.questionMap = found]
    ELSE IF Len(found) = 0
      THEN [r EXCEPT !.pc = "getAll", !.kw = 0, !.questionMap = <<>>]
    ELSE LocalTiers(r, found)

CandidatesStep(rec, S) ==
    CandidatesFound(rec, Read(rec, S), Preprocessed[rec.q].keywords,
                    FoundByKeyword(rec, S, Preprocessed[rec.q].keywords))

\* getAllQuestions for the candidates, and tiers 3 and 4.
GetAllStep(rec, S) == LocalTiers(Read(rec, S), getAllQuestions(S))

StorePcs == {"getStats", "exact", "keyword", "candidates", "getAll"}

StoreStep(rec, S) ==
    CASE rec.pc = "getStats" -> GetStatsStep(rec, S)
      [] rec.pc = "exact" -> ExactStep(rec, S)
      [] rec.pc = "keyword" -> KeywordStep(rec, S)
      [] rec.pc = "candidates" -> CandidatesStep(rec, S)
      [] rec.pc = "getAll" -> GetAllStep(rec, S)

\* What aiService.query gives: a match, an answer that is no success, or a
\* rejection.
AiConfidences == {2000, 9000}

AiOutcomes ==
    {[kind |-> "match", confidence |-> x] : x \in AiConfidences}
      \cup {[kind |-> "none", confidence |-> 0], [kind |-> "reject", confidence |-> 0]}

AiStep(rec, outcome) ==
    CASE outcome.kind = "match" ->
           Finish(rec, AiMatchFound([question |-> 0, matchType |-> "ai",
                                     confidence |-> outcome.confidence,
                                     rawScore |-> outcome.confidence]))
      [] outcome.kind = "none" -> Finish(rec, NoMatchFound(rec.hasData, TRUE))
      [] outcome.kind = "reject" -> Caught(rec, "UNKNOWN_ERROR")

\* The entry of findAnswer, up to the first suspend point.
Begin(q, options, S) ==
    LET rec == [IdleCall EXCEPT !.q = q, !.opts = DefaultOptions(options),
                                !.during = {S}]
    IN  IF Validation[q] # "" THEN Caught(rec, Validation[q])
        ELSE IF rec.opts.useCache THEN [rec EXCEPT !.pc = "checkCache"]
        ELSE [rec EXCEPT !.pc = "getStats"]


(***************************************************************************)
(* The steps of a findAnswer call.                                         *)
(***************************************************************************)
callerVars == <<keywordIndex, questions, importInfo, uploadResult, writer, writes,
                applied>>

FindAnswer(c, q, o) ==
    /\ call[c].pc = "idle"
    /\ call' = [call EXCEPT ![c] = Begin(q, OptionChoices[o], questions)]
    /\ calls' = calls + 1
    /\ UNCHANGED <<dbOpen, faults, setCount, inserted>>
    /\ UNCHANGED callerVars
    /\ UNCHANGED cacheVars

\* checkCache, after generateCacheKey: cache.get, and the return of a hit.
CacheChecked(c, rec, r) ==
    /\ cache' = r.cache
    /\ call' = [call EXCEPT ![c] =
                  IF r.value # null
                    THEN [rec EXCEPT !.pc = "returned", !.result = r.value]
                    ELSE [rec EXCEPT !.pc = "getStats"]]

CheckCache(c) ==
        /\ call[c].pc = "checkCache"
        /\ CacheChecked(c, [call[c] EXCEPT !.trace = Append(@, "cache.get")],
                        LRUGet(cache, CacheKeys[call[c].q], now, ttl))
        /\ UNCHANGED <<maxSize, ttl, now, lastSet, lastOp>>
        /\ UNCHANGED <<dbOpen, faults, setCount, inserted, calls>>
        /\ UNCHANGED callerVars

StoreRead(c, rec) ==
    /\ call' = [call EXCEPT ![c] = rec]
    /\ dbOpen' = TRUE
    /\ UNCHANGED <<faults, setCount, inserted, calls>>
    /\ UNCHANGED callerVars
    /\ UNCHANGED cacheVars

GetStats(c) ==
    call[c].pc = "getStats" /\ StoreRead(c, GetStatsStep(call[c], questions))

ExactMatch(c) ==
    call[c].pc = "exact" /\ StoreRead(c, ExactStep(call[c], questions))

KeywordMatch(c) ==
    call[c].pc = "keyword" /\ StoreRead(c, KeywordStep(call[c], questions))

GatherCandidates(c) ==
    call[c].pc = "candidates" /\ StoreRead(c, CandidatesStep(call[c], questions))

GetAllCandidates(c) ==
    call[c].pc = "getAll" /\ StoreRead(c, GetAllStep(call[c], questions))

\* The codes of a store operation that fails: the open of the database
\* fails, or the request does.
FailureCodes(requestCode) ==
    IF dbOpen THEN {requestCode} ELSE {"DB_UNAVAILABLE", requestCode}

\* A read of the store fails, and findAnswer catches the error.
ReadFails(c) ==
    /\ call[c].pc \in StorePcs
    /\ faults < MaxFaults
    /\ \E code \in FailureCodes("UNKNOWN_ERROR") :
          /\ call' = [call EXCEPT ![c] = Caught(call[c], code)]
          /\ dbOpen' = (dbOpen \/ code # "DB_UNAVAILABLE")
    /\ faults' = faults + 1
    /\ UNCHANGED <<setCount, inserted, calls>>
    /\ UNCHANGED callerVars
    /\ UNCHANGED cacheVars

AiQuery(c) ==
    /\ call[c].pc = "ai"
    /\ \E outcome \in AiOutcomes :
          call' = [call EXCEPT ![c] = AiStep(call[c], outcome)]
    /\ UNCHANGED <<dbOpen, faults, setCount, inserted, calls>>
    /\ UNCHANGED callerVars
    /\ UNCHANGED cacheVars

\* cacheResult, after generateCacheKey: cache.set, and the return.
CacheStored(c, key) ==
    /\ cache' = LRUSet(cache, key, call[c].result, now, maxSize)
    /\ setCount' = setCount + 1
    /\ inserted' = [k \in DOMAIN inserted \cup {key} |->
                      IF k = key THEN setCount + 1 ELSE inserted[k]]
    /\ call' = [call EXCEPT ![c].pc = "returned",
                            ![c].trace = Append(@, "cache.set")]

CacheResult(c) ==
        /\ call[c].pc = "cacheResult"
        /\ CacheStored(c, CacheKeys[call[c].q])
        /\ UNCHANGED <<maxSize, ttl, now, lastSet, lastOp>>
        /\ UNCHANGED <<dbOpen, faults, calls>>
        /\ UNCHANGED callerVars

\* The caller takes the result.
Return(c) ==
    /\ call[c].pc = "returned"
    /\ call' = [call EXCEPT ![c] = IdleCall]
    /\ UNCHANGED <<dbOpen, faults, setCount, inserted, calls>>
    /\ UNCHANGED callerVars
    /\ UNCHANGED cacheVars

(***************************************************************************)
(* message-handler.js: handleUploadFile and handleClearData, with          *)
(* state-manager.js: clearAll.                                             *)
(***************************************************************************)
Response(payload) == [type |-> "RESPONSE", payload |-> payload]

ErrorResponse(code) == [type |-> "ERROR", error |-> handleError(code)]

InFlight(rec) == rec.pc \in {"checkCache", "ai"} \cup StorePcs

\* The calls in flight see a collection that is now S.
NoteChange(S) ==
    [c \in Callers |->
        IF InFlight(call[c]) THEN [call[c] EXCEPT !.during = @ \cup {S}]
        ELSE call[c]]

writerUnchanged == <<keywordIndex, setCount, inserted, calls, applied>>

\* handleUploadFile up to the end of parse.
UploadFile(w, f) ==
    /\ writer[w].pc = "idle"
    /\ writer' = [writer EXCEPT ![w] =
          IF Parsed[f].ok
            THEN [IdleWriter EXCEPT !.op = "upload", !.file = f,
                                    !.pc = "clearAllQuestions",
                                    !.before = questions]
            ELSE [IdleWriter EXCEPT !.op = "upload", !.file = f,
                                    !.pc = "responded",
                                    !.before = questions,
                                    !.response = ErrorResponse(Parsed[f].code)]]
    /\ writes' = writes + 1
    /\ UNCHANGED <<questions, importInfo, uploadResult, dbOpen, faults, call>>
    /\ UNCHANGED writerUnchanged
    /\ UNCHANGED cacheVars

\* handleClearData up to the call of clearAllQuestions in clearAll.
ClearData(w) ==
    /\ writer[w].pc = "idle"
    /\ writer' = [writer EXCEPT ![w] =
          [IdleWriter EXCEPT !.op = "clear", !.pc = "clearAllQuestions",
                             !.before = questions]]
    /\ writes' = writes + 1
    /\ UNCHANGED <<questions, importInfo, uploadResult, dbOpen, faults, call>>
    /\ UNCHANGED writerUnchanged
    /\ UNCHANGED cacheVars

\* The transaction of clearAllQuestions commits.
ClearAllQuestions(w) ==
    /\ writer[w].pc = "clearAllQuestions"
    /\ questions' = {}
    /\ dbOpen' = TRUE
    /\ call' = NoteChange({})
    /\ writer' = [writer EXCEPT
          ![w].pc = IF writer[w].op = "upload" THEN "addQuestions" ELSE "cacheClear",
          ![w].changedAt = setCount]
    /\ UNCHANGED <<importInfo, uploadResult, faults, writes>>
    /\ UNCHANGED writerUnchanged
    /\ UNCHANGED cacheVars

\* addQuestions: the check of the array, then one batch in one transaction;
\* store.add of a key that the store holds aborts the transaction.
AddBatch(w, all, from, to) ==
    LET ids == Strict([k \in 1..(to - from + 1) |-> all[from + k - 1].id])
        idSet == {ids[k] : k \in 1..Len(ids)}
        clash == idSet \cap questions # {} \/ Cardinality(idSet) < Len(ids)
    IN  /\ writer[w].pc = "addQuestions"
        /\ IF Len(all) = 0
             THEN /\ writer' = [writer EXCEPT ![w].pc = "responded",
                                  ![w].response = ErrorResponse("UNKNOWN_ERROR")]
                  /\ UNCHANGED <<questions, call>>
           ELSE IF clash
             THEN /\ writer' = [writer EXCEPT ![w].pc = "responded",
                                  ![w].response = ErrorResponse("DB_TRANSACTION_FAILED")]
                  /\ UNCHANGED <<questions, call>>
           ELSE /\ questions' = questions \cup idSet
                /\ call' = NoteChange(questions \cup idSet)
                /\ writer' = [writer EXCEPT
                      ![w].batch = @ + 1,
                      ![w].pc = IF to = Len(all) THEN "updateMetadata"
                                ELSE "addQuestions"]
        /\ dbOpen' = TRUE
        /\ UNCHANGED <<importInfo, uploadResult, faults, writes>>
        /\ UNCHANGED writerUnchanged
        /\ UNCHANGED cacheVars

AddFrom(w, all, from) == AddBatch(w, all, from, Min2(Len(all), from + BATCH_SIZE - 1))

AddQuestions(w) ==
    AddFrom(w, Parsed[writer[w].file].questions, writer[w].batch * BATCH_SIZE + 1)

\* The transaction of updateMetadata('import_info') commits.
UpdateMetadata(w) ==
    /\ writer[w].pc = "updateMetadata"
    /\ importInfo' = writer[w].file
    /\ writer' = [writer EXCEPT ![w].pc = "cacheClear"]
    /\ UNCHANGED <<questions, uploadResult, dbOpen, faults, call, writes>>
    /\ UNCHANGED writerUnchanged
    /\ UNCHANGED cacheVars

\* cache.clear() after the store operations: handleUploadFile goes on to
\* chrome.storage.local.set, handleClearData responds.
ClearCache(w) ==
    /\ writer[w].pc = "cacheClear"
    /\ cache' = LRUClear(cache)
    /\ writer' = [writer EXCEPT ![w] =
          IF writer[w].op = "upload" THEN [@ EXCEPT !.pc = "storageSet"]
          ELSE [@ EXCEPT !.pc = "responded",
                         !.response = Response([success |-> TRUE])]]
    /\ UNCHANGED <<maxSize, ttl, now, lastSet, lastOp>>
    /\ UNCHANGED <<questions, importInfo, uploadResult, dbOpen, faults, call, writes>>
    /\ UNCHANGED writerUnchanged

\* chrome.storage.local.set({uploadResult}) and the response.
StorageSet(w) ==
    /\ writer[w].pc = "storageSet"
    /\ uploadResult' = TRUE
    /\ writer' = [writer EXCEPT ![w].pc = "responded",
          ![w].response = Response([success |-> TRUE,
              totalQuestions |-> Len(Parsed[writer[w].file].questions)])]
    /\ UNCHANGED <<questions, importInfo, dbOpen, faults, call, writes>>
    /\ UNCHANGED writerUnchanged
    /\ UNCHANGED cacheVars

\* A store operation or chrome.storage.local.set fails: the handler
\* catches the error and responds with it.
WriteFails(w) ==
    /\ writer[w].pc \in {"clearAllQuestions", "addQuestions", "updateMetadata",
                         "storageSet"}
    /\ faults < MaxFaults
    /\ \E code \in (IF writer[w].pc = "storageSet" THEN {"UNKNOWN_ERROR"}
                    ELSE IF writer[w].pc = "updateMetadata"
                      THEN FailureCodes("UNKNOWN_ERROR")
                    ELSE FailureCodes("DB_TRANSACTION_FAILED")) :
          /\ writer' = [writer EXCEPT ![w].pc = "responded",
                                      ![w].response = ErrorResponse(code)]
          /\ dbOpen' = (dbOpen \/ (writer[w].pc # "storageSet"
                                     /\ code # "DB_UNAVAILABLE"))
    /\ faults' = faults + 1
    /\ UNCHANGED <<questions, importInfo, uploadResult, call, writes>>
    /\ UNCHANGED writerUnchanged
    /\ UNCHANGED cacheVars

\* sendResponse
Respond(w) ==
    /\ writer[w].pc = "responded"
    /\ writer' = [writer EXCEPT ![w] = IdleWriter]
    /\ UNCHANGED <<questions, importInfo, uploadResult, dbOpen, faults, call, writes>>
    /\ UNCHANGED writerUnchanged
    /\ UNCHANGED cacheVars

Next ==
    \/ \E c \in Callers, q \in AskedQueryIds, o \in 1..Len(OptionChoices) :
          calls < MaxCalls /\ FindAnswer(c, q, o)
    \/ \E c \in Callers : CheckCache(c)
    \/ \E c \in Callers : GetStats(c)
    \/ \E c \in Callers : ExactMatch(c)
    \/ \E c \in Callers : KeywordMatch(c)
    \/ \E c \in Callers : GatherCandidates(c)
    \/ \E c \in Callers : GetAllCandidates(c)
    \/ \E c \in Callers : ReadFails(c)
    \/ \E c \in Callers : AiQuery(c)
    \/ \E c \in Callers : CacheResult(c)
    \/ \E c \in Callers : Return(c)
    \/ \E w \in SoleSender, f \in UploadedFileIds :
          writes < MaxWrites /\ UploadFile(w, f)
    \/ \E w \in SoleSender : writes < MaxWrites /\ ClearData(w)
    \/ \E w \in SoleSender : ClearAllQuestions(w)
    \/ \E w \in SoleSender : AddQuestions(w)
    \/ \E w \in SoleSender : UpdateMetadata(w)
    \/ \E w \in SoleSender : ClearCache(w)
    \/ \E w \in SoleSender : StorageSet(w)
    \/ \E w \in SoleSender : WriteFails(w)
    \/ \E w \in SoleSender : Respond(w)

Spec == Init /\ [][Next]_vars


(***************************************************************************)
(* What the claims on findAnswer speak of.                                 *)
(***************************************************************************)
TierNumber(e) ==
    CASE e = "tier1" -> 1
      [] e = "tier2" -> 2
      [] e = "tier3" -> 3
      [] e = "tier4" -> 4
      [] e = "tier5" -> 5
      [] OTHER -> 0

\* The tiers that a call has evaluated, in the order of their evaluation.
TiersOf(trace) ==
    LET t == SelectSeq(trace, LAMBDA e : TierNumber(e) > 0)
    IN  Strict([i \in 1..Len(t) |-> TierNumber(t[i])])

HasEvent(trace, e) == \E i \in 1..Len(trace) : trace[i] = e

CountEvent(trace, e) == Len(SelectSeq(trace, LAMBDA x : x = e))

\* The call has its result.
Done(rec) == rec.pc \in {"cacheResult", "returned"}

IsFailure(result) == "error" \in DOMAIN result

IsOutcome(result) == "tier" \in DOMAIN result

\* The call has read the store, and no read of it has failed.
ReadTheStore(rec) == HasEvent(rec.trace, "store.read") /\ ~IsFailure(rec.result)

KeywordStrings(keywords) == Strict([k \in 1..Len(keywords) |-> keywords[k].word])

\* getQuestionsByKeywords, all of its reads on one collection.
RECURSIVE getQuestionsByKeywords(_, _)
getQuestionsByKeywords(S, keywords) ==
    IF Len(keywords) = 0 THEN <<>>
    ELSE MapSetAll(getQuestionsByKeywords(S, SubSeq(keywords, 1, Len(keywords) - 1)),
                   getQuestionsByKeyword(S, keywords[Len(keywords)]))

\* The candidates of tiers 3 and 4 on one collection.
OrAllQuestions(found, S) == IF Len(found) = 0 THEN getAllQuestions(S) ELSE found

CandidatesOn(q, S) ==
    OrAllQuestions(getQuestionsByKeywords(S, KeywordStrings(Preprocessed[q].keywords)),
                   S)

\* What tier k gives for query q on the collection S.
TierResultOn(k, S, normalizedQuery, keywords, candidates) ==
    CASE k = 1 -> exactMatch(normalizedQuery,
                             getQuestionByNormalizedText(S, normalizedQuery))
      [] k = 2 -> keywordMatch(keywords,
                     getQuestionsByKeywords(S, KeywordStrings(keywords)))
      [] k = 3 -> fuzzyMatch(normalizedQuery, candidates)
      [] k = 4 -> partialMatch(normalizedQuery, candidates)

TierResult(k, q, S) ==
    TierResultOn(k, S, Preprocessed[q].normalizedQuery, Preprocessed[q].keywords,
                 CandidatesOn(q, S))

\* C1: in a call that misses the cache and finds a collection that is not
\* empty, the tiers are evaluated in the order 1, 2, 3, 4, 5, each at most
\* once and beginning with tier 1; a result of tier k is the result of the
\* last tier evaluated; and when all the reads of the call have seen one
\* collection, a tier that the call has evaluated and whose match meets the
\* minConfidence of the call is the tier whose match the call returns.
C1_TiersInOrderWithEarlyExit ==
    \A c \in Callers :
      LET rec == call[c]
          tiers == TiersOf(rec.trace)
      IN  /\ \A i \in 1..(Len(tiers) - 1) : tiers[i] < tiers[i + 1]
          /\ (rec.hasData /\ Len(tiers) > 0) => tiers[1] = 1
          /\ (Done(rec) /\ rec.hasData /\ IsOutcome(rec.result)) =>
               /\ rec.result.tier \in 1..5 =>
                    Len(tiers) > 0 /\ tiers[Len(tiers)] = rec.result.tier
               /\ \A S \in rec.observed : rec.observed = {S} =>
                    \A i \in 1..Len(tiers) :
                       (tiers[i] \in 1..4
                          /\ Meets(TierResult(tiers[i], rec.q, S), rec.opts))
                         => rec.result = MatchFound(TierResult(tiers[i], rec.q, S),
                                                    tiers[i])

\* A call returns the match of tier 3 after tiers 1 and 2 and before tier 4.
C1_Witness ==
    \E c \in Callers :
       /\ Done(call[c]) /\ call[c].hasData /\ IsOutcome(call[c].result)
       /\ call[c].result.tier = 3
       /\ TiersOf(call[c].trace) = <<1, 2, 3>>
       /\ Cardinality(call[c].observed) = 1

\* C2: every result of findAnswer with success = true and a tier in 1..4
\* carries a match whose confidence is at least the minConfidence of the
\* call that returns it (0.5 when the call passes none), a result that
\* comes from the cache included.
C2_ConfidenceMeetsCallThreshold ==
    \A c \in Callers :
       (/\ call[c].pc = "returned"
        /\ IsOutcome(call[c].result)
        /\ call[c].result.success
        /\ call[c].result.tier \in 1..4)
         => call[c].result.match.confidence >= call[c].opts.minConfidence

\* The documents of S that have the normalized question of d.
Twins(d, S) == {e \in S : Doc(e).normalizedQuestion = Doc(d).normalizedQuestion}

StoreFailed(result) ==
    IsFailure(result) /\ result.error.code \in {"UNKNOWN_ERROR", "DB_UNAVAILABLE"}

C6_CacheEmptiedOnChange ==
    \A w \in Senders :
       (writer[w].pc = "responded" /\ writer[w].changedAt >= 0)
         => \A i \in 1..Len(cache) : inserted[cache[i].key] > writer[w].changedAt

\* runMatchingPipeline with all of its reads on the collection S.
RECURSIVE RunOn(_, _)
RunOn(rec, S) == IF rec.pc \in StorePcs THEN RunOn(StoreStep(rec, S), S) ELSE rec

\* The results that the call can have when it runs on S from its data check
\* to its end with no other operation in between.
ResultsAfter(end) ==
    IF end.pc = "ai" THEN {AiStep(end, o).result : o \in AiOutcomes}
    ELSE {end.result}

AtomicResults(rec, S) ==
    ResultsAfter(RunOn([IdleCall EXCEPT !.q = rec.q, !.opts = rec.opts,
                                        !.pc = "getStats"], S))

\* C7: the result of a call that has read the store, no read having failed,
\* is a result of the call run atomically on one of the collections that
\* the store has held during the call.
C7_ResultOfOneSnapshot ==
    \A c \in Callers :
       (/\ Done(call[c])
        /\ HasEvent(call[c].trace, "store.read")
        /\ ~StoreFailed(call[c].result))
         => \E S \in call[c].during : call[c].result \in AtomicResults(call[c], S)

\* The length of the query without the whitespace at its two ends.
TrimmedLength(q) ==
    LET inside == {i \in 1..Len(q) : ~IsSpace(q[i])}
    IN  IF inside = {} THEN 0
        ELSE (CHOOSE i \in inside : \A j \in inside : j <= i)
               - (CHOOSE i \in inside : \A j \in inside : i <= j) + 1

\* The error code that each query of Queries is to be rejected with, "" for
\* a query that is not to be rejected.
ExpectedRejection ==
    Strict([q \in QueryIds |->
        IF ~IsString(Queries[q]) THEN "QUERY_EMPTY"
        ELSE IF Queries[q] = <<>> \/ TrimmedLength(Queries[q]) < 3 THEN "QUERY_EMPTY"
        ELSE IF TrimmedLength(Queries[q]) > 500 THEN "QUERY_TOO_LONG"
        ELSE ""])

\* C8: the step that begins findAnswer on a query that is no string, is
\* empty or has a trimmed length under 3 ends the call with the error code
\* QUERY_EMPTY, and on a query of a trimmed length over 500 with
\* QUERY_TOO_LONG; the call has then read neither the cache nor the store,
\* has evaluated no tier, and the cache and the collection are as before.
C8_RejectedBeforeAnything ==
    [][\A c \in Callers :
          (/\ call[c].pc = "idle"
           /\ call'[c].pc # "idle"
           /\ ExpectedRejection[call'[c].q] # "")
            => /\ call'[c].pc = "returned"
               /\ call'[c].result = handleError(ExpectedRejection[call'[c].q])
               /\ call'[c].trace = <<>>
               /\ cache' = cache
               /\ questions' = questions]_vars

\* A query that is too long has been rejected while the cache and the
\* collection hold something.
C8_Witness ==
    \E c \in Callers :
       /\ call[c].pc = "returned"
       /\ ExpectedRejection[call[c].q] = "QUERY_TOO_LONG"
       /\ call[c].result = handleError("QUERY_TOO_LONG")
       /\ call[c].trace = <<>>
       /\ Len(cache) > 0
       /\ questions # {}

\* The result object of the specification: success, match and tier, with
\* success = true iff the match is not null iff the tier is in 1..5.
WellFormed(result) ==
    /\ {"success", "match", "tier"} \subseteq DOMAIN result
    /\ result.success \in BOOLEAN
    /\ result.tier \in 0..5
    /\ result.success <=> result.match # null
    /\ result.success <=> result.tier \in 1..5

C10_EmptyCollectionSkipsLocalTiers ==
    \A c \in Callers :
       (HasEvent(call[c].trace, "store.read") /\ ~call[c].hasData)
         => /\ call[c].observed = {{}}
            /\ CountEvent(call[c].trace, "store.read") = 1
            /\ \A i \in 1..Len(TiersOf(call[c].trace)) :
                  TiersOf(call[c].trace)[i] = 5
            /\ (Done(call[c]) /\ call[c].opts.aiEnabled = "false") =>
                  call[c].result =
                    [success |-> FALSE, match |-> null, tier |-> 0,
                     message |-> "No Q&A file uploaded yet. Click the extension icon to upload your questions, or enable AI for instant answers."]

\* A call with the remote tier disabled has found the collection empty and
\* has returned.
C10_Witness ==
    \E c \in Callers :
       /\ call[c].pc = "returned"
       /\ HasEvent(call[c].trace, "store.read")
       /\ ~call[c].hasData
       /\ call[c].opts.aiEnabled = "false"
       /\ call[c].result.tier = 0
       /\ TiersOf(call[c].trace) = <<>>

\* The set of the tiers that a call has evaluated.
TierSet(rec) == Range(TiersOf(rec.trace))

\* C11: a call never evaluates a tier whose flag is off for it: tier 3 only
\* with fuzzyEnabled, tier 4 only with partialEnabled, tier 5 only when
\* aiEnabled is not false.  Tiers 1 and 2 have no flag: a call whose data
\* check has found data has evaluated tier 1, and a call that has its
\* result from the pipeline on a collection with data, the result not being
\* the match of tier 1, has evaluated tier 2.
C11_DisabledTiersNotEvaluated ==
    \A c \in Callers :
       call[c].pc # "idle" =>
         /\ 3 \in TierSet(call[c]) => call[c].opts.fuzzyEnabled
         /\ 4 \in TierSet(call[c]) => call[c].opts.partialEnabled
         /\ 5 \in TierSet(call[c]) => call[c].opts.aiEnabled # "false"
         /\ call[c].hasData => 1 \in TierSet(call[c])
         /\ (/\ Done(call[c])
             /\ call[c].hasData
             /\ IsOutcome(call[c].result)
             /\ call[c].result.tier # 1) => 2 \in TierSet(call[c])

\* A call with fuzzyEnabled, partialEnabled and aiEnabled all false has
\* found data, has evaluated tiers 1 and 2 only and has returned no match.
C11_Witness ==
    \E c \in Callers :
       /\ call[c].pc = "returned"
       /\ call[c].hasData
       /\ ~call[c].opts.fuzzyEnabled
       /\ ~call[c].opts.partialEnabled
       /\ call[c].opts.aiEnabled = "false"
       /\ TiersOf(call[c].trace) = <<1, 2>>
       /\ IsOutcome(call[c].result)
       /\ call[c].result.tier = 0

\* C12: a call whose options do not set aiEnabled never invokes
\* aiService.query and never has a result of tier 5.
C12_RemoteTierOffByDefault ==
    \A c \in Callers :
       (call[c].pc # "idle" /\ call[c].opts.aiEnabled = "undefined") =>
         /\ call[c].pc # "ai"
         /\ ~HasEvent(call[c].trace, "tier5")
         /\ (Done(call[c]) /\ IsOutcome(call[c].result)
               /\ ~HasEvent(call[c].trace, "cache.get")) =>
               call[c].result.tier # 5

\* The keys of the entries of the cache.
CachedKeys(map) == {map[i].key : i \in 1..Len(map)}

\* C13: findAnswer sets a cache entry only in a call with useCache on whose
\* pipeline has returned success with a match that is not null, and the
\* entry is that result under sha256 of the raw query; no other step adds a
\* key to the cache.  A call that ends in no match or in an error has set
\* nothing, and a call with useCache off neither gets from the cache nor
\* sets in it.
C13_CacheWrittenOnlyOnSuccess ==
    /\ [](\A c \in Callers :
            call[c].pc # "idle" =>
              /\ ~call[c].opts.useCache =>
                    /\ call[c].pc \notin {"checkCache", "cacheResult"}
                    /\ ~HasEvent(call[c].trace, "cache.get")
                    /\ ~HasEvent(call[c].trace, "cache.set")
              /\ (Done(call[c]) /\ (IsFailure(call[c].result)
                                      \/ call[c].result.match = null)) =>
                    /\ call[c].pc = "returned"
                    /\ ~HasEvent(call[c].trace, "cache.set")
              /\ HasEvent(call[c].trace, "cache.set") =>
                    /\ call[c].opts.useCache
                    /\ call[c].result.success
                    /\ call[c].result.match # null)
    /\ [][(/\ (setCount' # setCount
                  \/ ~(CachedKeys(cache') \subseteq CachedKeys(cache)))
               => \E c \in Callers :
                     /\ call[c].pc = "cacheResult"
                     /\ call'[c].pc = "returned"
                     /\ call[c].opts.useCache
                     /\ call[c].result.success
                     /\ call[c].result.match # null
                     /\ cache' = LRUSet(cache, sha256(Queries[call[c].q]),
                                        call[c].result, now, maxSize)
            /\ \A d \in Callers :
                  (call'[d] # call[d] /\ cache' # cache) =>
                     /\ call[d].pc \in {"checkCache", "cacheResult"}
                     /\ call[d].opts.useCache)]_vars

\* A call on a query that differs from its normalized text has returned
\* after a set: the cache holds its result under sha256 of the raw query
\* and nothing under sha256 of the normalized query.
C13_Witness ==
    \E c \in Callers :
       /\ call[c].pc = "returned"
       /\ HasEvent(call[c].trace, "cache.set")
       /\ Queries[call[c].q] # Preprocessed[call[c].q].normalizedQuery
       /\ MapHas(cache, sha256(Queries[call[c].q]))
       /\ MapGet(cache, sha256(Queries[call[c].q])).value = call[c].result
       /\ ~MapHas(cache, sha256(Preprocessed[call[c].q].normalizedQuery))

\* C14: a call that has invoked aiService.query and has not had a match
\* from it, the query having answered without success or having thrown,
\* returns the no-match result: success = false, match = null, tier 0 and
\* a message, never an error result.
C14_RemoteFailureIsNoMatch ==
    \A c \in Callers :
       (/\ Done(call[c])
        /\ HasEvent(call[c].trace, "tier5")
        /\ ~(IsOutcome(call[c].result) /\ call[c].result.tier = 5))
         => /\ ~IsFailure(call[c].result)
            /\ DOMAIN call[c].result = {"success", "match", "message", "tier"}
            /\ ~call[c].result.success
            /\ call[c].result.match = null
            /\ call[c].result.tier = 0

\* C15: a call that ends in a failure of a store access (the query was
\* valid and aiService.query was not invoked) returns success = false with
\* the code DB_UNAVAILABLE or DB_TRANSACTION_FAILED, not UNKNOWN_ERROR.
C15_StoreFailureCode ==
    \A c \in Callers :
       (/\ Done(call[c])
        /\ IsFailure(call[c].result)
        /\ Validation[call[c].q] = ""
        /\ ~HasEvent(call[c].trace, "tier5"))
         => /\ ~call[c].result.success
            /\ call[c].result.error.code \in {"DB_UNAVAILABLE", "DB_TRANSACTION_FAILED"}

MaxScored == 2

MaxScoreSteps == 24

\* The raw scores: 0, 0.05, ..., 1.0 and on to 1.2, which keywordMatch
\* can give.
RawScores == {(k * SCALE) \div 20 : k \in 0..MaxScoreSteps}

\* The queryLength and the questionLength of the context.
ContextLengths == {0, 7, 10, 50, 51, 100}

MatchTypeChoices == MATCH_TYPES \cup {"unknown"}

InitConfidence ==
    /\ cache = <<>>
    /\ maxSize = MAX_SIZE
    /\ ttl = TTL_MS
    /\ now = 0
    /\ lastSet = <<>>
    /\ lastOp = [op |-> "new"]
    /\ keywordIndex = "words"
    /\ questions = {}
    /\ importInfo = 0
    /\ uploadResult = FALSE
    /\ dbOpen = FALSE
    /\ faults = 0
    /\ call = [c \in Callers |-> IdleCall]
    /\ writer = [w \in Senders |-> IdleWriter]
    /\ setCount = 0
    /\ inserted = <<>>
    /\ calls = 0
    /\ writes = 0
    /\ \E matchType \in MatchTypeChoices,
          queryLength \in ContextLengths, questionLength \in ContextLengths :
          applied = [fn |-> "calculateConfidence", matchType |-> matchType,
                     queryLength |-> queryLength,
                     questionLength |-> questionLength, scored |-> {}]

\* calculateConfidence(matchType, rawScore, context)
CalculateConfidence(rawScore) ==
    /\ applied.fn = "calculateConfidence"
    /\ Cardinality(applied.scored) < MaxScored
    /\ \A p \in applied.scored : p.rawScore # rawScore
    /\ applied' = [applied EXCEPT !.scored = @ \cup
          {[rawScore |-> rawScore,
            confidence |-> calculateConfidence(applied.matchType, rawScore,
                               applied.queryLength, applied.questionLength)]}]
    /\ UNCHANGED <<keywordIndex, questions, importInfo, uploadResult, dbOpen,
                   faults, call, writer, setCount, inserted, calls, writes>>
    /\ UNCHANGED cacheVars

NextConfidence == \E rawScore \in RawScores : CalculateConfidence(rawScore)

SpecConfidence == InitConfidence /\ [][NextConfidence]_vars

\* C17: with one match type and one context, calculateConfidence does not
\* go down as the raw score goes up, and for the match type exact it is 1.0
\* whatever the raw score is.
C17_ConfidenceMonotonic ==
    applied.fn = "calculateConfidence" =>
      /\ \A p1 \in applied.scored, p2 \in applied.scored :
            p1.rawScore < p2.rawScore => p1.confidence <= p2.confidence
      /\ applied.matchType = "exact" =>
            \A p \in applied.scored : p.confidence = SCALE

\* Two raw scores of a keyword match of a query longer than 50 have two
\* confidences in their order, the greater one at the cap of 1.0 that the
\* boost of 1.1 reaches.
C17_Witness ==
    /\ applied.fn = "calculateConfidence"
    /\ applied.matchType = "keyword"
    /\ applied.queryLength > 50
    /\ \E p1 \in applied.scored, p2 \in applied.scored :
          /\ p1.rawScore < p2.rawScore
          /\ p1.confidence < p2.confidence
          /\ p2.confidence = SCALE

MaxTextLen == 3

MaxPasses == 2

\* The characters of the texts: a letter, a space, the hyphen, a period
\* and the symbols @ # $ % that normalizePunctuation keeps.
TextAlphabet == {"a", " ", "-", ".", "@", "#", "$", "%"}

Texts == UNION {{Strict(t) : t \in [1..n -> TextAlphabet]} : n \in 0..MaxTextLen}

Presets == {"normalizeForMatching", "normalizeForKeywords"}

\* String.prototype.toUpperCase
toUpperCase(text) ==
    Strict([i \in 1..Len(text) |->
        IF text[i] \in Lower THEN CHOOSE u \in Upper : ToLowerChar(u) = text[i]
        ELSE text[i]])

\* The letter cases of a contraction and of its expansion.
InCase(text, case) ==
    CASE case = "lower" -> text
      [] case = "upper" -> toUpperCase(text)
      [] case = "capital" -> toUpperCase(SubSeq(text, 1, 1)) \o SubSeq(text, 2, Len(text))

\* The contraction with the apostrophe U+0027 or U+2019.
WithApostrophe(text, apostrophe) == ReplaceEach(text, {"'"}, <<apostrophe>>)

\* What is before and after the contraction in its text.
Surroundings == {<< <<>>, <<>> >>, << Chars("why "), <<>> >>,
                 << <<>>, Chars(" it") >>, << Chars("why "), Chars(" it?") >>}

InitNormalize ==
    /\ cache = <<>>
    /\ maxSize = MAX_SIZE
    /\ ttl = TTL_MS
    /\ now = 0
    /\ lastSet = <<>>
    /\ lastOp = [op |-> "new"]
    /\ keywordIndex = "words"
    /\ questions = {}
    /\ importInfo = 0
    /\ uploadResult = FALSE
    /\ dbOpen = FALSE
    /\ faults = 0
    /\ call = [c \in Callers |-> IdleCall]
    /\ writer = [w \in Senders |-> IdleWriter]
    /\ setCount = 0
    /\ inserted = <<>>
    /\ calls = 0
    /\ writes = 0
    /\ \/ \E preset \in Presets, text \in Texts :
            applied = [fn |-> "normalize", preset |-> preset, text |-> text,
                       returned |-> <<>>]
       \/ \E k \in 1..Len(contractions), case \in {"lower", "upper", "capital"},
             apostrophe \in {"'", "rsquo"}, around \in Surroundings :
            applied = [fn |-> "contraction",
                       contracted |-> around[1]
                          \o WithApostrophe(InCase(Chars(contractions[k][1]), case),
                                            apostrophe)
                          \o around[2],
                       expanded |-> around[1]
                          \o InCase(Chars(contractions[k][2]), case)
                          \o around[2],
                       returned |-> <<>>]

NormalizeWith(preset, text) ==
    IF preset = "normalizeForMatching" THEN normalizeForMatching(text)
    ELSE normalizeForKeywords(text)

\* The preset on the text, and then on what the last pass has returned.
Normalize ==
    /\ applied.fn = "normalize"
    /\ Len(applied.returned) < MaxPasses
    /\ applied' = [applied EXCEPT !.returned = Append(@,
          NormalizeWith(applied.preset,
              IF Len(applied.returned) = 0 THEN applied.text
              ELSE applied.returned[Len(applied.returned)]))]
    /\ UNCHANGED <<keywordIndex, questions, importInfo, uploadResult, dbOpen,
                   faults, call, writer, setCount, inserted, calls, writes>>
    /\ UNCHANGED cacheVars

\* normalizeForMatching on the text with the contraction and on the text
\* with the expansion.
NormalizeContraction ==
    /\ applied.fn = "contraction"
    /\ applied.returned = <<>>
    /\ applied' = [applied EXCEPT !.returned =
          <<normalizeForMatching(applied.contracted),
            normalizeForMatching(applied.expanded)>>]
    /\ UNCHANGED <<keywordIndex, questions, importInfo, uploadResult, dbOpen,
                   faults, call, writer, setCount, inserted, calls, writes>>
    /\ UNCHANGED cacheVars

NextNormalize ==
    \/ Normalize
    \/ NormalizeContraction

SpecNormalize == InitNormalize /\ [][NextNormalize]_vars

\* C19: for each preset and every text, normalize of what normalize has
\* returned is what normalize has returned.
C19_NormalizeIdempotent ==
    (applied.fn = "normalize" /\ Len(applied.returned) >= 2) =>
       \A i \in 2..Len(applied.returned) :
          applied.returned[i] = applied.returned[i - 1]

\* C20: normalizeForMatching of a text with a contraction of the
\* dictionary, in lower case, in upper case or capitalized, with the
\* apostrophe U+0027 or U+2019, is normalizeForMatching of the text with
\* the expansion in the place of the contraction.
C20_ContractionsExpanded ==
    (applied.fn = "contraction" /\ applied.returned # <<>>) =>
       applied.returned[1] = applied.returned[2]


(***************************************************************************)
(* extractKeywords on its own: the texts are built of the words of a small *)
(* vocabulary, and the function is called with each setting of its         *)
(* options.                                                                *)
(***************************************************************************)
MaxWords == 4

\* A content word, a second one, a stop-word, a question word, a qualifier
\* that is in the stop-word list as well, and a word that names a property
\* every object inherits.
Vocabulary == {"data", "science", "the", "what", "only", "constructor"}

RECURSIVE JoinWords(_)
JoinWords(ws) ==
    IF Len(ws) = 0 THEN <<>>
    ELSE IF Len(ws) = 1 THEN Chars(ws[1])
    ELSE Chars(ws[1]) \o <<" ">> \o JoinWords(Tail(ws))

KeywordTexts ==
    UNION {{JoinWords(ws) : ws \in [1..n -> Vocabulary]} : n \in 0..MaxWords}

MaxKeywordsChoices == {1, MAX_KEYWORDS}

\* No request is in progress, the cache is empty and the store holds the
\* documents S of file f.
Stored(S, f) ==
    /\ cache = <<>>
    /\ maxSize = MAX_SIZE
    /\ ttl = TTL_MS
    /\ now = 0
    /\ lastSet = <<>>
    /\ lastOp = [op |-> "new"]
    /\ keywordIndex = "words"
    /\ questions = S
    /\ importInfo = f
    /\ uploadResult = FALSE
    /\ dbOpen = FALSE
    /\ faults = 0
    /\ call = [c \in Callers |-> IdleCall]
    /\ writer = [w \in Senders |-> IdleWriter]
    /\ setCount = 0
    /\ inserted = <<>>
    /\ calls = 0
    /\ writes = 0

\* No request is in progress and nothing is stored.
Quiescent == Stored({}, 0)

\* A step of a function that touches nothing of the program's state.
PureStep ==
    /\ UNCHANGED <<keywordIndex, questions, importInfo, uploadResult, dbOpen,
                   faults, call, writer, setCount, inserted, calls, writes>>
    /\ UNCHANGED cacheVars

InitKeywords ==
    /\ Quiescent
    /\ \E text \in KeywordTexts, maxKeywords \in MaxKeywordsChoices,
          includePhrases \in BOOLEAN :
         applied = [fn |-> "extractKeywords", text |-> text,
                    maxKeywords |-> maxKeywords,
                    includePhrases |-> includePhrases,
                    called |-> FALSE, returned |-> <<>>]

ExtractKeywords ==
    /\ applied.fn = "extractKeywords"
    /\ ~applied.called
    /\ applied' = [applied EXCEPT
          !.called = TRUE,
          !.returned = extractKeywordsWith(applied.text, applied.maxKeywords,
                                           applied.includePhrases)]
    /\ PureStep

NextKeywords == ExtractKeywords

SpecKeywords == InitKeywords /\ [][NextKeywords]_vars

\* A keyword of one token, not a phrase.
SingleToken(word) == \A k \in 1..Len(word) : word[k] # " "

\* C21: every keyword that extractKeywords returns has an importance from 0
\* to 1, and no keyword of one token is a stop-word, the question words and
\* the qualifiers apart, for every text and every setting of the options.
C21_KeywordsWeightedAndFiltered ==
    (applied.fn = "extractKeywords" /\ applied.called) =>
        \A k \in 1..Len(applied.returned) :
            /\ applied.returned[k].importance \in 0..SCALE
            /\ SingleToken(applied.returned[k].word) =>
                  \/ applied.returned[k].word \notin StopwordSet
                  \/ applied.returned[k].word \in KeptWordSet

\* The tokens of a text occur at most twice each.
AtMostTwice(text) ==
    \A k \in 1..Len(splitWhitespace(text)) :
        Count(splitWhitespace(text), splitWhitespace(text)[k]) <= 2

\* C29: extractKeywords returns the empty list for every text in which each
\* token occurs at most twice.
C29_NoKeywordsWithoutRepetition ==
    (applied.fn = "extractKeywords" /\ applied.called /\ AtMostTwice(applied.text)) =>
        applied.returned = <<>>


\* The call has its result from the tiers, and tier 4 was among them.
PartialTierRan(rec) == Done(rec) /\ IsOutcome(rec.result) /\ 4 \in TierSet(rec)

InitPipeline ==
    \E f \in {0} \cup {g \in FileIds : Parsed[g].ok} :
       /\ Stored(IF f = 0 THEN {} ELSE IdsOf(f), f)
       /\ \E q \in QueryIds, o \in 1..Len(OptionChoices) :
            applied = [fn |-> "findAnswer", q |-> q, options |-> o,
                       called |-> FALSE, returned |-> null]

\* What the call that has begun as rec returns when all of its reads see S.
PipelineResults(rec, S) ==
    IF rec.pc = "returned" THEN {rec.result} ELSE AtomicResults(rec, S)

RunPipeline ==
    /\ applied.fn = "findAnswer"
    /\ ~applied.called
    /\ \E r \in PipelineResults(Begin(applied.q, OptionChoices[applied.options],
                                      questions), questions) :
         applied' = [applied EXCEPT !.called = TRUE, !.returned = r]
    /\ PureStep

NextPipeline == RunPipeline

SpecPipeline == InitPipeline /\ [][NextPipeline]_vars

\* The store holds the one document "What is the capital of france" with
\* the answer "Paris", and the call has asked "capital France" with the
\* fuzzy and the partial tier enabled.
CapitalFranceAsked ==
    /\ applied.fn = "findAnswer"
    /\ applied.called
    /\ Queries[applied.q] = Chars("capital France")
    /\ OptionChoices[applied.options].fuzzyEnabled # "false"
    /\ OptionChoices[applied.options].partialEnabled # "false"
    /\ Cardinality(questions) = 1
    /\ \A d \in questions : /\ Doc(d).question = Chars("What is the capital of france")
                            /\ Doc(d).answer = Chars("Paris")

\* C22: the query "capital France" with fuzzy and partial enabled on the
\* collection of the one document "What is the capital of france" / "Paris"
\* returns a match of tier 4 on that document with a confidence from 0.30 to
\* 0.60.
C22_CapitalFranceIsPartialMatch ==
    CapitalFranceAsked =>
        /\ IsOutcome(applied.returned)
        /\ applied.returned.tier = 4
        /\ applied.returned.match.question \in questions
        /\ applied.returned.match.confidence \in 3000..6000


(***************************************************************************)
(* The order of use of the cache.                                          *)
(***************************************************************************)
\* The entries of the other keys, least recently used first.
OtherEntries(map, key) == SelectSeq(map, LAMBDA e : e.key # key)

\* The entry of the key is older than the time to live.
Expired(map, key) ==
    \E i \in 1..Len(map) : map[i].key = key /\ now - map[i].timestamp > ttl

\* C23: a get or a has that finds an entry no older than ttl makes it the
\* most recently used entry and leaves the other entries in their order; a
\* get on an entry older than ttl returns null and removes the entry; a set
\* puts its entry last, removes another entry only when the key is new and
\* the cache is full, and then removes the first, which is the entry least
\* recently set or returned; a set on a key that is present removes no other
\* entry.
C23_EvictsLeastRecentlyUsed ==
    [][/\ (lastOp'.op \in {"get", "has"} /\ MapHas(cache, lastOp'.key)
             /\ ~Expired(cache, lastOp'.key)) =>
              /\ cache'[Len(cache')] = MapGet(cache, lastOp'.key)
              /\ OtherEntries(cache', lastOp'.key) = OtherEntries(cache, lastOp'.key)
              /\ lastOp'.op = "get" => lastOp'.value = MapGet(cache, lastOp'.key).value
       /\ (lastOp'.op = "get" /\ Expired(cache, lastOp'.key)) =>
              /\ lastOp'.value = null
              /\ ~MapHas(cache', lastOp'.key)
              /\ cache' = OtherEntries(cache, lastOp'.key)
       /\ lastOp'.op = "set" =>
              /\ cache'[Len(cache')] = [key |-> lastOp'.key, value |-> lastOp'.value,
                                        timestamp |-> now]
              /\ Len(OtherEntries(cache', lastOp'.key)) = Len(cache') - 1
              /\ IF ~MapHas(cache, lastOp'.key) /\ Len(cache) >= maxSize
                   THEN OtherEntries(cache', lastOp'.key) = Tail(cache)
                   ELSE OtherEntries(cache', lastOp'.key)
                           = OtherEntries(cache, lastOp'.key)
      ]_vars

\* A set of a third key has evicted from a full cache the entry that was
\* set later than the other one: the other one has been returned by a get
\* since, and is still in the cache.
C23_Witness ==
    \E a \in DOMAIN lastSet, b \in DOMAIN lastSet :
       /\ a # b
       /\ lastOp.op = "set"
       /\ lastOp.key \notin {a, b}
       /\ MapHas(cache, a)
       /\ ~MapHas(cache, b)
       /\ ~lastSet[b].live
       /\ lastSet[a].at < lastSet[b].at
       /\ lastSet[a].readAt >= lastSet[b].at


(***************************************************************************)
(* fuzzyMatch on its own: the candidates are some copies of one document,  *)
(* up to a few more than FUZZY_MAX_CANDIDATES, and then up to MaxTail      *)
(* documents.                                                              *)
(***************************************************************************)
MaxBeyond == 1

MaxTail == 2

FillerCounts ==
    {0, 1} \cup ((FUZZY_MAX_CANDIDATES - 2)..(FUZZY_MAX_CANDIDATES + MaxBeyond))

CandidateTails == UNION {{Strict(t) : t \in [1..n -> DocIds]} : n \in 0..MaxTail}

InitFuzzy ==
    /\ Quiescent
    /\ \E normalizedQuery \in NormalizedQueries, filler \in DocIds,
          n \in FillerCounts, tail \in CandidateTails :
         applied = [fn |-> "fuzzyMatch", normalizedQuery |-> normalizedQuery,
                    candidates |-> Strict([k \in 1..n |-> filler]) \o tail,
                    called |-> FALSE, returned |-> null]

FuzzyMatch ==
    /\ applied.fn = "fuzzyMatch"
    /\ ~applied.called
    /\ applied' = [applied EXCEPT
          !.called = TRUE,
          !.returned = fuzzyMatch(applied.normalizedQuery, applied.candidates)]
    /\ PureStep

NextFuzzy == FuzzyMatch

SpecFuzzy == InitFuzzy /\ [][NextFuzzy]_vars

\* 0.6 * levenshteinSimilarity + 0.4 * jaroWinklerSimilarity of the query
\* and the i-th candidate.
ScoreOf(i) ==
    Lookup(FuzzyTable, applied.normalizedQuery,
           Doc(applied.candidates[i]).normalizedQuestion)

\* The candidates that count: the first FUZZY_MAX_CANDIDATES.
Counted == 1..Min2(Len(applied.candidates), FUZZY_MAX_CANDIDATES)

\* C25: fuzzyMatch returns null when no candidate among the first 50 has a
\* score of 0.85 or more, and otherwise the first of the candidates among
\* the first 50 that have the highest score, with that score; the candidates
\* after the 50th do not count.
C25_FuzzyBestOfFirstFifty ==
    (applied.fn = "fuzzyMatch" /\ applied.called) =>
        IF \A i \in Counted : ScoreOf(i) < FUZZY_MIN_SIMILARITY
          THEN applied.returned = null
          ELSE /\ applied.returned # null
               /\ \E i \in Counted :
                    /\ \A j \in Counted : ScoreOf(j) <= ScoreOf(i)
                    /\ \A j \in 1..(i - 1) : ScoreOf(j) < ScoreOf(i)
                    /\ applied.returned.question = applied.candidates[i]
                    /\ applied.returned.rawScore = ScoreOf(i)
                    /\ applied.returned.matchType = "fuzzy"

\* There are more than 50 candidates, one after the 50th has a score of
\* 0.85 or more, above the score of each of the first 50, and fuzzyMatch has
\* returned null.
C25_Witness ==
    /\ applied.fn = "fuzzyMatch"
    /\ applied.called
    /\ Len(applied.candidates) > FUZZY_MAX_CANDIDATES
    /\ \E k \in (FUZZY_MAX_CANDIDATES + 1)..Len(applied.candidates) :
          /\ ScoreOf(k) >= FUZZY_MIN_SIMILARITY
          /\ \A i \in Counted : ScoreOf(i) < ScoreOf(k)
    /\ applied.returned = null


\* The upload of the sender has ended with an error response.
UploadFailed(rec) ==
    rec.pc = "responded" /\ rec.op = "upload" /\ rec.response.type = "ERROR"

\* C27: when handleUploadFile responds with an error, the collection is the
\* one that the store held when the request began.
C27_FailedUploadKeepsCollection ==
    \A w \in Senders : UploadFailed(writer[w]) => questions = writer[w].before


\* An upload or a clear has been requested, and no request is in progress.
Settled ==
    /\ writes > 0
    /\ \A w \in Senders : writer[w].pc \in {"idle", "responded"}
    /\ \A c \in Callers : call[c].pc \in {"idle", "returned"}

\* C26: once an upload or a clear and the calls of findAnswer that overlap
\* it have completed, every entry of the cache that holds a match of tiers 1
\* to 4 holds a document of the collection.
C26_CacheRefersToCollection ==
    Settled =>
        \A i \in 1..Len(cache) :
            cache[i].value.tier \in 1..4 => cache[i].value.match.question \in questions


(***************************************************************************)
(* message-handler.js: handleMessage.  Two senders send messages that are  *)
(* handled at the same time: uploads, clear-data requests, queries,        *)
(* messages without a payload and messages of no known type.  The reads of *)
(* a query interleave with the writes in the specification of the engine.  *)
(***************************************************************************)
\* The queries of the QUERY_ANSWER messages: the question of a document,
\* a query of other words and an empty query.
MessageQueryIds ==
    {q \in QueryIds : Queries[q] \in {Chars("What is the capital of france"),
                                       Chars("data data data of science"), <<>>}}

\* The settings of the QUERY_ANSWER messages: the cache, the remote tier and
\* tiers 3 and 4 are off.
MessageSettings ==
    [minConfidence |-> 0, fuzzyEnabled |-> "false", partialEnabled |-> "false",
     useCache |-> "false", aiEnabled |-> "false"]

\* QUERY_ANSWER with a payload: handleQueryAnswer calls findAnswer, whose
\* reads of the store are taken together here, on the collection that the
\* store holds when the message is received.
QueryAnswer(w, q) ==
    /\ writer[w].pc = "idle"
    /\ \E r \in PipelineResults(Begin(q, MessageSettings, questions), questions) :
          writer' = [writer EXCEPT ![w] =
             [IdleWriter EXCEPT !.op = "query", !.pc = "findAnswer",
                                !.before = questions, !.query = q, !.result = r]]
    /\ dbOpen' = (dbOpen \/ Validation[q] = "")
    /\ writes' = writes + 1
    /\ UNCHANGED <<questions, importInfo, uploadResult, faults, call>>
    /\ UNCHANGED writerUnchanged
    /\ UNCHANGED cacheVars

\* findAnswer returns and handleQueryAnswer makes the response of its
\* result; a result that is an error of findAnswer is a response as well.
QueryAnswered(w) ==
    /\ writer[w].pc = "findAnswer"
    /\ writer' = [writer EXCEPT ![w].pc = "responded",
                                ![w].response = Response(writer[w].result)]
    /\ UNCHANGED <<questions, importInfo, uploadResult, dbOpen, faults, call,
                   writes>>
    /\ UNCHANGED writerUnchanged
    /\ UNCHANGED cacheVars

\* UPLOAD_FILE without a payload: the destructuring of the payload throws
\* inside the try of handleUploadFile, and the catch makes the response.
UploadWithoutPayload(w) ==
    /\ writer[w].pc = "idle"
    /\ writer' = [writer EXCEPT ![w] =
          [IdleWriter EXCEPT !.op = "upload", !.pc = "responded",
                             !.before = questions,
                             !.response = ErrorResponse("UNKNOWN_ERROR")]]
    /\ writes' = writes + 1
    /\ UNCHANGED <<questions, importInfo, uploadResult, dbOpen, faults, call>>
    /\ UNCHANGED writerUnchanged
    /\ UNCHANGED cacheVars

\* QUERY_ANSWER without a payload: handleQueryAnswer reads payload.query
\* before its try, its promise is rejected, and handleMessage has given the
\* promise no handler for that.
QueryWithoutPayload(w) ==
    /\ writer[w].pc = "idle"
    /\ writer' = [writer EXCEPT ![w] =
          [IdleWriter EXCEPT !.op = "query", !.pc = "rejected",
                             !.before = questions]]
    /\ writes' = writes + 1
    /\ UNCHANGED <<questions, importInfo, uploadResult, dbOpen, faults, call>>
    /\ UNCHANGED writerUnchanged
    /\ UNCHANGED cacheVars

\* A message of no known type: the default case of the switch.
UnknownType(w) ==
    /\ writer[w].pc = "idle"
    /\ writer' = [writer EXCEPT ![w] =
          [IdleWriter EXCEPT !.op = "unknown", !.pc = "responded",
                             !.before = questions,
                             !.response = [type |-> "ERROR",
                                           error |-> [message |-> "Unknown message type"]]]]
    /\ writes' = writes + 1
    /\ UNCHANGED <<questions, importInfo, uploadResult, dbOpen, faults, call>>
    /\ UNCHANGED writerUnchanged
    /\ UNCHANGED cacheVars

\* What handleMessage returns: true when the response is sent later.
handleMessage(op) == op # "unknown"

\* The steps of the handler of a sender after the message is received.
SenderStep(w) ==
    \/ ClearAllQuestions(w)
    \/ AddQuestions(w)
    \/ UpdateMetadata(w)
    \/ ClearCache(w)
    \/ StorageSet(w)
    \/ QueryAnswered(w)
    \/ Respond(w)

NextMessages ==
    \/ \E w \in Senders, f \in UploadedFileIds :
          writes < MaxMessages /\ UploadFile(w, f)
    \/ \E w \in Senders : writes < MaxMessages /\ ClearData(w)
    \/ \E w \in Senders : writes < MaxMessages /\ UploadWithoutPayload(w)
    \/ \E w \in Senders : writes < MaxMessages /\ QueryWithoutPayload(w)
    \/ \E w \in Senders : writes < MaxMessages /\ UnknownType(w)
    \/ \E w \in Senders, q \in MessageQueryIds :
          writes < MaxMessages /\ QueryAnswer(w, q)
    \/ \E w \in Senders : SenderStep(w)
    \/ \E w \in Senders : WriteFails(w)

SpecMessages == Init /\ [][NextMessages]_vars

\* Every task that the event loop has queued runs: a transaction of the
\* store completes or fails, a digest is computed, a promise that is
\* resolved runs its continuation.
FairSpecMessages ==
    /\ SpecMessages
    /\ \A w \in Senders : WF_vars(SenderStep(w))

\* C24: when handleUploadFile responds with success, the collection is
\* exactly the documents parsed from its file, and the totalQuestions of the
\* response is the size of the collection, also when another upload or a
\* clear-data request is handled at the same time.
C24_UploadReplacesCollection ==
    [][\A w \in Senders :
          (/\ writer[w].pc # "responded"
           /\ writer'[w].pc = "responded"
           /\ writer'[w].op = "upload"
           /\ writer'[w].response.type = "RESPONSE")
            => /\ questions' = IdsOf(writer'[w].file)
               /\ writer'[w].response.payload.totalQuestions = Cardinality(questions')
      ]_vars

\* C30: every message gets its response: the handler of each sender that
\* has received a message comes to its response, with the type RESPONSE or
\* ERROR for a message of a known type, answered later, and ERROR for a
\* message of no known type, answered at once.
C30_EveryMessageAnswered ==
    /\ \A w \in Senders : (writer[w].pc # "idle") ~> (writer[w].pc = "responded")
    /\ [](\A w \in Senders :
            writer[w].pc = "responded" =>
               /\ writer[w].response.type \in {"RESPONSE", "ERROR"}
               /\ ~handleMessage(writer[w].op) => writer[w].response.type = "ERROR")

====
